---- MODULE Spec2Model ----
(***************************************************************************)
(* A model of the TCP sync server of photo_sync_server                     *)
(* (src/server_cmd/main.go): the per-connection frame loop                 *)
(* handleTCPConnection, the thumbnail pass generateThumbnails that a        *)
(* SyncComplete frame starts on its own goroutine, and the file system     *)
(* both work on.                                                           *)
(*                                                                         *)
(* Paths, names and payload strings are TLA+ strings; file contents are    *)
(* sequences of bytes (0..255).                                            *)
(***************************************************************************)
EXTENDS Integers, Sequences, FiniteSets, TLC

(***************************************************************************)
(* Bounds of the model.                                                    *)
(***************************************************************************)
\* connections the listener accepts in the protocol specification
MaxConns == 1
\* connections the listener accepts in the generation specification
GenConns == 2
\* frames the server handles in all in the protocol specification
MaxFrames == 2
\* frames the server handles in all in the generation specification
GenMaxFrames == 4
\* calls of generateThumbnails in the rerun specification
MaxPasses == 2
\* connections the listener accepts in the query specification
QueryConns == 2
\* frames the server handles in all in the query specification
QueryMaxFrames == 3

(***************************************************************************)
(* Protocol constants (main.go:35-51).                                     *)
(***************************************************************************)
msgTypeData == 1
msgTypeDataAlt == 2
msgTypeSyncComplete == 3
msgTypeSetPhoneName == 4
msgTypeGetMediaCount == 5
msgTypeMediaCountRsp == 6
msgTypeMediaThumbList == 7
msgTypeMediaThumbData == 8
msgTypeMediaDelList == 9
msgTypeMediaDownloadList == 11
msgTypeAck == msgTypeSyncComplete

\* "limit 50MB for safety" (main.go:316)
PayloadLimit == 50 * 1024 * 1024

\* baseRecvDir when the configuration names no receive directory (main.go:168)
baseRecvDir == "received"

\* the subdirectory generateThumbnails and the catalog use (main.go:568, 756)
thumbSubdir == "subnails"

(***************************************************************************)
(* Strings: the pieces of Go's strings and path/filepath packages the      *)
(* server uses, computed character by character.                           *)
(***************************************************************************)
CharAt(s, i) == SubSeq(s, i, i)

\* strings.HasPrefix
HasPrefix(s, p) == Len(s) >= Len(p) /\ SubSeq(s, 1, Len(p)) = p

\* strings.HasSuffix
HasSuffix(s, p) == Len(s) >= Len(p) /\ SubSeq(s, Len(s) - Len(p) + 1, Len(s)) = p

\* strings.TrimSuffix
TrimSuffix(s, p) == IF HasSuffix(s, p) THEN SubSeq(s, 1, Len(s) - Len(p)) ELSE s

\* strings.TrimPrefix
TrimPrefix(s, p) == IF HasPrefix(s, p) THEN SubSeq(s, Len(p) + 1, Len(s)) ELSE s

\* strings.ContainsAny(s, chars), chars given as a set of one-character strings
ContainsAny(s, chars) == \E i \in 1..Len(s) : CharAt(s, i) \in chars

UpperChars == "ABCDEFGHIJKLMNOPQRSTUVWXYZ"
LowerChars == "abcdefghijklmnopqrstuvwxyz"

\* the lower-case letter of every upper-case letter
LowerOf ==
    [ch \in { CharAt(UpperChars, i) : i \in 1..26 } |->
        CharAt(LowerChars, CHOOSE i \in 1..26 : CharAt(UpperChars, i) = ch)]

LowerChar(ch) == IF ch \in DOMAIN LowerOf THEN LowerOf[ch] ELSE ch

\* strings.ToLower
Lower[s \in STRING] ==
    IF s = "" THEN "" ELSE LowerChar(CharAt(s, 1)) \o Lower[SubSeq(s, 2, Len(s))]

ToLower(s) == Lower[s]

\* the positions of the character ch in s
Indexes(s, ch) == { i \in 1..Len(s) : CharAt(s, i) = ch }

Smallest[S \in SUBSET Nat] == IF S = {} THEN 0 ELSE CHOOSE i \in S : \A j \in S : i <= j

Largest[S \in SUBSET Nat] == IF S = {} THEN 0 ELSE CHOOSE i \in S : \A j \in S : j <= i

\* the index of the first occurrence of the character ch in s, 0 when absent
FirstIndex(s, ch) == Smallest[Indexes(s, ch)]

\* the index of the last occurrence of the character ch in s, 0 when absent
LastIndex(s, ch) == Largest[Indexes(s, ch)]

\* p from its k-th character on split at "/", k = 0: p has no "/"
SplitAt[p \in STRING, k \in Nat] ==
    IF k = 0 THEN <<p>>
    ELSE <<SubSeq(p, 1, k - 1)>>
         \o SplitAt[SubSeq(p, k + 1, Len(p)), FirstIndex(SubSeq(p, k + 1, Len(p)), "/")]

\* the "/"-separated elements of a path, empty elements included
SplitPath(p) == SplitAt[p, FirstIndex(p, "/")]

\* filepath.Clean on the elements of a relative path: "" and "." are dropped,
\* ".." removes the element before it, and is kept when there is none
CleanElems[acc \in Seq(STRING), rest \in Seq(STRING)] ==
    IF rest = <<>> THEN acc
    ELSE IF rest[1] = "" \/ rest[1] = "." THEN CleanElems[acc, Tail(rest)]
    ELSE IF rest[1] = ".."
         THEN IF acc # <<>> /\ acc[Len(acc)] # ".."
              THEN CleanElems[SubSeq(acc, 1, Len(acc) - 1), Tail(rest)]
              ELSE CleanElems[Append(acc, ".."), Tail(rest)]
    ELSE CleanElems[Append(acc, rest[1]), Tail(rest)]

\* the elements joined by "/"; no element: "."
JoinElems[es \in Seq(STRING)] ==
    IF es = <<>> THEN "."
    ELSE IF Len(es) = 1 THEN es[1]
    ELSE es[1] \o "/" \o JoinElems[Tail(es)]

\* filepath.Clean of a relative path; the empty result is "."
Clean(p) == JoinElems[CleanElems[<<>>, SplitPath(p)]]

\* filepath.Join(a, b): empty elements are ignored, the result is cleaned
Join(a, b) ==
    IF a = "" /\ b = "" THEN ""
    ELSE IF a = "" THEN Clean(b)
    ELSE IF b = "" THEN Clean(a)
    ELSE Clean(a \o "/" \o b)

\* filepath.Dir: all but the last element, cleaned
DirAt[p \in STRING, k \in Nat] == IF k = 0 THEN "." ELSE Clean(SubSeq(p, 1, k - 1))

Dir(p) == DirAt[p, LastIndex(p, "/")]

\* the last element of a path (filepath.Base for a clean path)
BaseAt[p \in STRING, k \in Nat] == SubSeq(p, k + 1, Len(p))

Base(p) == BaseAt[p, LastIndex(p, "/")]

\* filepath.Ext: the suffix of the last element that starts at its last dot
ExtAt[b \in STRING, k \in Nat] == IF k = 0 THEN "" ELSE SubSeq(b, k, Len(b))

Ext(p) == ExtAt[Base(p), LastIndex(Base(p), ".")]

\* the proper ancestors of a clean relative path, nearest last
AncestorsOf[es \in Seq(STRING)] ==
    { JoinElems[SubSeq(es, 1, n)] : n \in 1..(Len(es) - 1) }

Ancestors(p) == AncestorsOf[SplitPath(p)]

(***************************************************************************)
(* base64.StdEncoding.DecodeString.                                        *)
(***************************************************************************)
B64Alphabet == "ABCDEFGHIJKLMNOPQRSTUVWXYZabcdefghijklmnopqrstuvwxyz0123456789+/"

IsB64Char(ch) == \E i \in 1..64 : CharAt(B64Alphabet, i) = ch

B64Value(ch) == (CHOOSE i \in 1..64 : CharAt(B64Alphabet, i) = ch) - 1

\* one quantum of four characters; <<ok, bytes>>. last: it ends the input,
\* where alone "xx==" and "xxx=" are accepted
B64Quantum(q, last) ==
    LET c(i) == CharAt(q, i)
        v(i) == B64Value(c(i))
        b1 == v(1) * 4 + v(2) \div 16
        b2 == (v(2) % 16) * 16 + v(3) \div 4
        b3 == (v(3) % 4) * 64 + v(4)
    IN  IF \A i \in 1..4 : IsB64Char(c(i)) THEN <<TRUE, <<b1, b2, b3>>>>
        ELSE IF last /\ IsB64Char(c(1)) /\ IsB64Char(c(2)) /\ IsB64Char(c(3)) /\ c(4) = "="
             THEN <<TRUE, <<b1, b2>>>>
        ELSE IF last /\ IsB64Char(c(1)) /\ IsB64Char(c(2)) /\ c(3) = "=" /\ c(4) = "="
             THEN <<TRUE, <<v(1) * 4 + v(2) \div 16>>>>
        ELSE <<FALSE, <<>>>>

\* <<ok, bytes>>: ok is FALSE for a CorruptInputError
\* q decoded in front of the decoded rest r
B64Both[q \in BOOLEAN \X Seq(Nat), r \in BOOLEAN \X Seq(Nat)] ==
    IF q[1] /\ r[1] THEN <<TRUE, q[2] \o r[2]>> ELSE <<FALSE, <<>>>>

B64DecodeString[s \in STRING] ==
    IF s = "" THEN <<TRUE, <<>>>>
    ELSE IF Len(s) < 4 THEN <<FALSE, <<>>>>
    ELSE B64Both[B64Quantum(SubSeq(s, 1, 4), Len(s) = 4),
                 B64DecodeString[SubSeq(s, 5, Len(s))]]

B64Decode(s) == B64DecodeString[s]

\* base64.StdEncoding.EncodeToString
B64Char(v) == CharAt(B64Alphabet, v + 1)

B64EncodeToString[b \in Seq(Nat)] ==
    IF b = <<>> THEN ""
    ELSE IF Len(b) = 1
         THEN B64Char(b[1] \div 4) \o B64Char((b[1] % 4) * 16) \o "=="
    ELSE IF Len(b) = 2
         THEN B64Char(b[1] \div 4) \o B64Char((b[1] % 4) * 16 + b[2] \div 16)
              \o B64Char((b[2] % 16) * 4) \o "="
    ELSE B64Char(b[1] \div 4) \o B64Char((b[1] % 4) * 16 + b[2] \div 16)
         \o B64Char((b[2] % 16) * 4 + b[3] \div 64) \o B64Char(b[3] % 64)
         \o B64EncodeToString[SubSeq(b, 4, Len(b))]

B64Encode(b) == B64EncodeToString[b]

(***************************************************************************)
(* The order on strings Go's < and os.ReadDir's sort use: byte-wise, the    *)
(* characters ranked as in ASCII.                                          *)
(***************************************************************************)
AsciiOrder == "-./0123456789ABCDEFGHIJKLMNOPQRSTUVWXYZ_abcdefghijklmnopqrstuvwxyz"

CharRank(ch) == CHOOSE i \in 1..Len(AsciiOrder) : CharAt(AsciiOrder, i) = ch

\* a < b: a is a proper prefix of b, or the first character that differs ranks lower
StrLess(a, b) ==
    \/ Len(a) < Len(b) /\ SubSeq(b, 1, Len(a)) = a
    \/ \E i \in 1..Len(a) :
          /\ i <= Len(b)
          /\ SubSeq(a, 1, i - 1) = SubSeq(b, 1, i - 1)
          /\ CharAt(a, i) # CharAt(b, i)
          /\ CharRank(CharAt(a, i)) < CharRank(CharAt(b, i))

\* the strings of a set in increasing order
Sorted[S \in SUBSET STRING] ==
    [k \in 1..Cardinality(S) |->
        CHOOSE y \in S : Cardinality({ z \in S : StrLess(z, y) }) = k - 1]

SortedNames(S) == Sorted[S]

(***************************************************************************)
(* State.                                                                  *)
(***************************************************************************)
VARIABLES
    dirs,    \* the directories that exist
    files,   \* the regular files that exist: path -> bytes
    conns,   \* accepted connections in order of acceptance: st, recvDir, n
    passes,  \* generateThumbnails goroutines in order of the go statement
    last,    \* the latest iteration of a connection's frame loop: what it
             \* read, what it sent and how it ended
    stale,   \* the passes that were in flight when a SetPhoneName frame was
             \* processed (history, to state the cancellation claim)
    alive    \* the server process runs: no goroutine has panicked

vars == <<dirs, files, conns, passes, last, stale, alive>>

(***************************************************************************)
(* The file system calls the server makes.                                 *)
(***************************************************************************)
\* os.Stat(p) returns no error
Exists(fs, ds, p) == p \in DOMAIN fs \/ p \in ds \/ p = "."

IsDirectory(ds, p) == p \in ds \/ p = "."

\* os.MkdirAll(p) succeeds unless p or an ancestor is a regular file
MkdirAllOK(fs, p) == \A a \in Ancestors(p) \cup {p} : a \notin DOMAIN fs

MkdirAll(ds, p) == ds \cup Ancestors(p) \cup {p}

\* os.Create / os.WriteFile can open p: its directory exists and p is no directory
CanCreate(fs, ds, p) == IsDirectory(ds, Dir(p)) /\ p \notin ds

WriteFile(fs, p, bytes) ==
    [q \in DOMAIN fs \cup {p} |-> IF q = p THEN bytes ELSE fs[q]]

\* the clean path q is a direct entry of the directory d
InDir(q, d) ==
    IF d = "." THEN q # "." /\ ~ContainsAny(q, {"/"})
    ELSE /\ HasPrefix(q, d \o "/")
         /\ Len(q) > Len(d) + 1
         /\ ~ContainsAny(SubSeq(q, Len(d) + 2, Len(q)), {"/"})

\* the entries of directory d
Children(fs, ds, d) == { q \in DOMAIN fs \cup ds : InDir(q, d) }

DirEntries[ds \in SUBSET STRING, d \in STRING, names \in Seq(STRING)] ==
    [k \in 1..Len(names) |-> [name |-> names[k], isDir |-> Join(d, names[k]) \in ds]]

\* os.ReadDir(d): name and kind of every direct entry, sorted by name
ReadDir(fs, ds, d) ==
    DirEntries[ds, d, SortedNames({ Base(q) : q \in Children(fs, ds, d) })]

(***************************************************************************)
(* Frames.  A frame on the wire is its 5-byte header (type, length) and    *)
(* the payload bytes that follow.  avail is the number of payload bytes    *)
(* that arrive before the stream ends (avail < length: the client went     *)
(* away in mid-payload).  body is what the payload bytes say: kind "text"  *)
(* is a raw string that is no JSON document, kind "json" a JSON object     *)
(* with the members id, data, media, pageIndex and pageSize, those named   *)
(* in absent left out.                                                     *)
(***************************************************************************)
TextBody(t) ==
    [kind |-> "text", text |-> t, absent |-> {}, id |-> "", data |-> "",
     media |-> "", pageIndex |-> 0, pageSize |-> 0]

UploadBody(id, data, media, absent) ==
    [kind |-> "json", text |-> "", absent |-> absent \cup {"pageIndex", "pageSize"},
     id |-> id, data |-> data, media |-> media, pageIndex |-> 0, pageSize |-> 0]

PageBody(pageIndex, pageSize, absent) ==
    [kind |-> "json", text |-> "", absent |-> absent \cup {"id", "data", "media"},
     id |-> "", data |-> "", media |-> "", pageIndex |-> pageIndex, pageSize |-> pageSize]

Frame(type, length, avail, body) ==
    [type |-> type, length |-> length, avail |-> avail, body |-> body]

\* a frame that carries the raw string t
TextFrame(type, t) == Frame(type, Len(t), Len(t), TextBody(t))

(***************************************************************************)
(* Replies.                                                                *)
(***************************************************************************)
NoReply == [type |-> 0, ack |-> "", count |-> <<>>, photos |-> <<>>]

\* binary.BigEndian.PutUint32
BigEndian32(n) ==
    <<(n \div 16777216) % 256, (n \div 65536) % 256, (n \div 256) % 256, n % 256>>

\* an ACK framed with the type of the count response
AckReplyAsCount(text) ==
    [type |-> msgTypeMediaCountRsp, ack |-> text, count |-> <<>>, photos |-> <<>>]

\* main.go:424-431
AckReply(text) == [type |-> msgTypeAck, ack |-> text, count |-> <<>>, photos |-> <<>>]

\* main.go:242-249
CountReply(n) ==
    [type |-> msgTypeMediaCountRsp, ack |-> "", count |-> BigEndian32(n), photos |-> <<>>]

\* main.go:303-308
ThumbReply(photos) ==
    [type |-> msgTypeMediaThumbData, ack |-> "", count |-> <<>>, photos |-> photos]

(***************************************************************************)
(* What one iteration of the frame loop does: whether it returns (closed), *)
(* the payload bytes it read, its reply, recvDir and the file system after *)
(* it, whether it started generateThumbnails (spawn), whether it reached   *)
(* the SetPhoneName branch (named), and for an upload the file name it     *)
(* chose and whether os.WriteFile succeeded.                               *)
(***************************************************************************)
Outcome(closed, nread, reply, rd, ds, fs) ==
    [closed |-> closed, nread |-> nread, reply |-> reply, recvDir |-> rd,
     dirs |-> ds, files |-> fs, spawn |-> FALSE, named |-> FALSE,
     fname |-> "", wrote |-> FALSE, panic |-> FALSE]

\* io.ReadFull(conn, payload) returns no error
PayloadArrives(f) == f.avail >= f.length

\* a loop without the check of main.go:197: every type byte is let through
EveryTypeKnown(t) == t \in 0..255

\* main.go:197
IsKnownType(t) ==
    t \in {msgTypeData, msgTypeDataAlt, msgTypeSyncComplete, msgTypeSetPhoneName,
           msgTypeGetMediaCount, msgTypeMediaThumbList}

\* a SyncComplete without the return of main.go:209: the loop goes on
SyncCompleteNoReturn(rd, ds, fs, f) ==
    [Outcome(FALSE, 0, NoReply, rd, ds, fs) EXCEPT !.spawn = TRUE]

\* main.go:202-210: go generateThumbnails(recvDir); return
SyncCompleteStep(rd, ds, fs, f) ==
    [Outcome(TRUE, 0, NoReply, rd, ds, fs) EXCEPT !.spawn = TRUE]

PhotoExts == {".jpg", ".jpeg", ".png"}
VideoExts == {".mp4", ".mov", ".m4v", ".avi", ".mkv"}

\* main.go:855-869: the entries es that are counted
CountedEntries(es) ==
    Cardinality({ k \in DOMAIN es :
        ~es[k].isDir /\ ToLower(Ext(es[k].name)) \in PhotoExts \cup VideoExts })

\* main.go:850-870; the count, 0 with the error of os.ReadDir
countPhotosInDir(fs, ds, dir) ==
    IF ~IsDirectory(ds, dir) THEN 0 ELSE CountedEntries(ReadDir(fs, ds, dir))

\* a GetMediaCount without the read of main.go:215-221: the payload stays
\* in the stream
GetMediaCountUnread(rd, ds, fs, f) ==
    Outcome(FALSE, 0, CountReply(countPhotosInDir(fs, ds, rd)), rd, ds, fs)

\* main.go:213-251: an error of countPhotosInDir is answered with 0 too
GetMediaCountStep(rd, ds, fs, f) ==
    IF f.length > 0 /\ ~PayloadArrives(f)
    THEN Outcome(TRUE, f.avail, NoReply, rd, ds, fs)
    ELSE Outcome(FALSE, f.length, CountReply(countPhotosInDir(fs, ds, rd)), rd, ds, fs)

\* main.go:812-815: the thumbnail's name without extension and "tbn-"
ThumbID(trimmed) ==
    IF HasPrefix(ToLower(trimmed), "tbn-") THEN SubSeq(trimmed, 5, Len(trimmed))
    ELSE trimmed

\* main.go:817-837
ThumbMedia(fs, ds, dir, base, m) ==
    IF \E vext \in VideoExts : Exists(fs, ds, Join(dir, base \o vext)) THEN "video"
    ELSE IF m = "jpeg" THEN "jpg" ELSE m

\* main.go:805-843: the record of the thumbnail file name, ext its extension
photoItemExt(fs, ds, dir, thumbDir, name, ext) ==
    [id |-> ThumbID(TrimSuffix(name, ext)),
     data |-> B64Encode(fs[Join(thumbDir, name)]),
     media |-> ThumbMedia(fs, ds, dir, ThumbID(TrimSuffix(name, ext)), TrimPrefix(ext, "."))]

photoItem(fs, ds, dir, thumbDir, name) ==
    photoItemExt(fs, ds, dir, thumbDir, name, ToLower(Ext(name)))

\* main.go:765-776: the thumbnail names of the listing es, sorted
ThumbNames(es) ==
    SortedNames({ es[k].name : k \in { j \in DOMAIN es :
        ~es[j].isDir /\ ToLower(Ext(es[j].name)) \in PhotoExts } })

(***************************************************************************)
(* Go's int on the 64-bit targets the server is built for: IntBytes bytes, *)
(* least significant first, two's complement.  Products and sums wrap.     *)
(***************************************************************************)
IntBytes == 8
Int64 == [1..IntBytes -> 0..255]

\* the bytes of n, 0 <= n < 2^31
NatBytes(n) ==
    [k \in 1..IntBytes |->
        IF k = 1 THEN n % 256
        ELSE IF k = 2 THEN (n \div 256) % 256
        ELSE IF k = 3 THEN (n \div 65536) % 256
        ELSE IF k = 4 THEN (n \div 16777216) % 256
        ELSE 0]

\* the int of value n, -2^31 < n < 2^31
Int64Of(n) ==
    IF n >= 0 THEN NatBytes(n) ELSE [k \in 1..IntBytes |-> 255 - NatBytes(-n - 1)[k]]

IsNegative(x) == x[IntBytes] >= 128
IsZero(x) == \A k \in 1..IntBytes : x[k] = 0

\* x < 2^31, and then its value
FitsSmall(x) == x[4] < 128 /\ \A k \in 5..IntBytes : x[k] = 0
SmallValue(x) == x[1] + 256 * x[2] + 65536 * x[3] + 16777216 * x[4]

\* x >= n and x > n for an int x and a length n
AtLeast(x, n) == ~IsNegative(x) /\ (FitsSmall(x) => SmallValue(x) >= n)
MoreThan(x, n) == ~IsNegative(x) /\ (FitsSmall(x) => SmallValue(x) > n)

\* a + b, wrapping
AddCarry[a \in Int64, b \in Int64, k \in 0..IntBytes] ==
    IF k = 0 THEN 0 ELSE (a[k] + b[k] + AddCarry[a, b, k - 1]) \div 256

Add64(a, b) ==
    [k \in 1..IntBytes |-> (a[k] + b[k] + AddCarry[a, b, k - 1]) % 256]

\* a * b, wrapping: column k of the long multiplication and its carry
MulColumn[a \in Int64, b \in Int64, k \in 1..IntBytes, i \in 0..IntBytes] ==
    IF i = 0 THEN 0 ELSE a[i] * b[k + 1 - i] + MulColumn[a, b, k, i - 1]

MulCarry[a \in Int64, b \in Int64, k \in 0..IntBytes] ==
    IF k = 0 THEN 0 ELSE (MulColumn[a, b, k, k] + MulCarry[a, b, k - 1]) \div 256

Mul64(a, b) ==
    [k \in 1..IntBytes |-> (MulColumn[a, b, k, k] + MulCarry[a, b, k - 1]) % 256]

\* main.go:793: names[start:end] for end <= len(names); the slice expression
\* panics unless 0 <= start <= end
SliceOf(names, start, end) ==
    IF IsNegative(start) \/ IsNegative(end) \/ SmallValue(end) < SmallValue(start)
    THEN [panic |-> TRUE, page |-> <<>>]
    ELSE [panic |-> FALSE,
          page |-> [k \in 1..(SmallValue(end) - SmallValue(start)) |->
                       names[SmallValue(start) + k]]]

\* main.go:785-793: start and pageSize are ints
PageSlice(names, start, pageSize) ==
    IF AtLeast(start, Len(names)) THEN [panic |-> FALSE, page |-> <<>>]
    ELSE IF MoreThan(Add64(start, pageSize), Len(names))
         THEN SliceOf(names, start, Int64Of(Len(names)))
         ELSE SliceOf(names, start, Add64(start, pageSize))

\* main.go:778-784
PageIndexOrZero(pageIndex) == IF IsNegative(pageIndex) THEN Int64Of(0) ELSE pageIndex
PageSizeOrDefault(pageSize) ==
    IF IsNegative(pageSize) \/ IsZero(pageSize) THEN Int64Of(100) ELSE pageSize

\* main.go:778-793
PageOf(names, pageIndex, pageSize) ==
    PageSlice(names,
              Mul64(PageIndexOrZero(pageIndex), PageSizeOrDefault(pageSize)),
              PageSizeOrDefault(pageSize))

\* main.go:803-844
PhotoItems(fs, ds, dir, thumbDir, page) ==
    [k \in DOMAIN page |-> photoItem(fs, ds, dir, thumbDir, page[k])]

\* main.go:755-846; whether the slice expression panics, and the photos, none
\* with an error (main.go:297-301)
buildThumbsJSONPayloadPaged(fs, ds, dir, pageIndex, pageSize) ==
    IF ~IsDirectory(ds, Join(dir, thumbSubdir)) THEN [panic |-> FALSE, photos |-> <<>>]
    ELSE \* the directory is listed once
         LET pg == PageOf(ThumbNames(ReadDir(fs, ds, Join(dir, thumbSubdir))),
                          pageIndex, pageSize)
         IN  [panic |-> pg.panic,
              photos |-> PhotoItems(fs, ds, dir, Join(dir, thumbSubdir), pg.page)]

\* main.go:280-293: the page the request asks for, <<pageIndex, pageSize>>
RequestedPage(f) ==
    IF f.length > 0 /\ f.body.kind = "json"
    THEN << IF "pageIndex" \notin f.body.absent /\ ~IsNegative(f.body.pageIndex)
            THEN f.body.pageIndex ELSE Int64Of(0),
            IF "pageSize" \notin f.body.absent /\ ~IsNegative(f.body.pageSize)
                                               /\ ~IsZero(f.body.pageSize)
            THEN f.body.pageSize ELSE Int64Of(100) >>
    ELSE <<Int64Of(0), Int64Of(100)>>

\* main.go:296-308: the reply to the page built
ThumbListSends(rd, ds, fs, f, built) ==
    IF built.panic
    THEN [Outcome(TRUE, f.length, NoReply, rd, ds, fs) EXCEPT !.panic = TRUE]
    ELSE Outcome(FALSE, f.length, ThumbReply(built.photos), rd, ds, fs)

\* main.go:254-310
MediaThumbListStep(rd, ds, fs, f) ==
    IF f.length > 0 /\ ~PayloadArrives(f)
    THEN Outcome(TRUE, f.avail, NoReply, rd, ds, fs)
    ELSE ThumbListSends(rd, ds, fs, f,
                        buildThumbsJSONPayloadPaged(fs, ds, rd, RequestedPage(f)[1],
                                                    RequestedPage(f)[2]))

\* main.go:347-351: recvDir is the new directory, created or not
SetPhoneNameIn(recvDir, length, ds, fs) ==
    IF MkdirAllOK(fs, recvDir)
    THEN [Outcome(FALSE, length, NoReply, recvDir, MkdirAll(ds, recvDir), fs)
             EXCEPT !.named = TRUE]
    ELSE [Outcome(TRUE, length, NoReply, recvDir, ds, fs) EXCEPT !.named = TRUE]

\* a SetPhoneName that joins the name to the current directory instead of
\* the base directory
SetPhoneNameNested(rd, ds, fs, f) ==
    SetPhoneNameIn(Join(rd, f.body.text), f.length, ds, fs)

\* main.go:342-353
SetPhoneNameStep(rd, ds, fs, f) ==
    SetPhoneNameIn(Join(baseRecvDir, f.body.text), f.length, ds, fs)

\* json.Unmarshal into the struct of main.go:356-360: a member left out is ""
ParseUpload(body) ==
    [ok |-> body.kind = "json",
     ID |-> IF "id" \in body.absent THEN "" ELSE body.id,
     Data |-> IF "data" \in body.absent THEN "" ELSE body.data,
     Media |-> IF "media" \in body.absent THEN "" ELSE body.media]

\* the media token taken as the extension without the test of main.go:391-393
UploadExtAsSent(lower) == lower

\* main.go:389-393
UploadExt(lower) ==
    IF ContainsAny(lower, {"/", "\\"}) \/ lower = "" THEN "bin" ELSE lower

\* main.go:395-405
UploadPath(rd, id, ext) ==
    IF ToLower(Ext(id)) = "." \o ext THEN Join(rd, id) ELSE Join(rd, id \o "." \o ext)

\* main.go:388-405: the file an upload is saved to
UploadFileName(rd, id, media) == UploadPath(rd, id, UploadExt(ToLower(media)))

\* main.go:415-431: os.WriteFile and the ACK, the directories being ds1
UploadWrite(skip, fs, ds1, id, fname, bytes) ==
    IF ~CanCreate(fs, ds1, fname)
    THEN [skip EXCEPT !.dirs = ds1, !.fname = fname]
    ELSE [skip EXCEPT !.dirs = ds1,
                      !.files = WriteFile(fs, fname, bytes),
                      !.reply = AckReply("OK:" \o id),
                      !.fname = fname,
                      !.wrote = TRUE]

\* main.go:407-431: the parent directories, then the file
UploadSave(skip, rd, ds, fs, id, fname, bytes) ==
    IF Dir(fname) = rd THEN UploadWrite(skip, fs, ds, id, fname, bytes)
    ELSE IF ~MkdirAllOK(fs, Dir(fname)) THEN [skip EXCEPT !.fname = fname]
    ELSE UploadWrite(skip, fs, MkdirAll(ds, Dir(fname)), id, fname, bytes)

\* an upload that ignores the error of DecodeString (main.go:372-376) and
\* saves what was decoded
UploadDecodedUnchecked(skip, rd, ds, fs, obj, dec) ==
    UploadSave(skip, rd, ds, fs, obj.ID, UploadFileName(rd, obj.ID, obj.Media), dec[2])

\* main.go:371-431: dec is the result of base64.StdEncoding.DecodeString
UploadDecoded(skip, rd, ds, fs, obj, dec) ==
    IF ~dec[1] THEN skip
    ELSE UploadSave(skip, rd, ds, fs, obj.ID,
                    UploadFileName(rd, obj.ID, obj.Media), dec[2])

\* an upload without the check for empty members (main.go:366-369)
UploadParsedUnchecked(skip, rd, ds, fs, obj) ==
    IF ~obj.ok THEN skip
    ELSE UploadDecoded(skip, rd, ds, fs, obj, B64Decode(obj.Data))

\* main.go:361-431: obj is the result of json.Unmarshal, skip the outcome
\* of a continue
UploadParsed(skip, rd, ds, fs, obj) ==
    IF ~obj.ok THEN skip
    ELSE IF obj.ID = "" \/ obj.Data = "" \/ obj.Media = "" THEN skip
    ELSE UploadDecoded(skip, rd, ds, fs, obj, B64Decode(obj.Data))

\* main.go:355-431
UploadStep(rd, ds, fs, f) ==
    UploadParsed(Outcome(FALSE, f.length, NoReply, rd, ds, fs), rd, ds, fs,
                 ParseUpload(f.body))

\* main.go:178-432: one iteration of the loop, the header read
FrameStep(rd, ds, fs, f) ==
    IF ~IsKnownType(f.type) THEN Outcome(TRUE, 0, NoReply, rd, ds, fs)
    ELSE IF f.type = msgTypeSyncComplete THEN SyncCompleteStep(rd, ds, fs, f)
    ELSE IF f.type = msgTypeGetMediaCount THEN GetMediaCountStep(rd, ds, fs, f)
    ELSE IF f.type = msgTypeMediaThumbList THEN MediaThumbListStep(rd, ds, fs, f)
    ELSE IF f.length = 0 THEN Outcome(FALSE, 0, NoReply, rd, ds, fs)
    ELSE IF f.length > PayloadLimit THEN Outcome(TRUE, 0, NoReply, rd, ds, fs)
    ELSE IF ~PayloadArrives(f) THEN Outcome(TRUE, f.avail, NoReply, rd, ds, fs)
    ELSE IF f.type = msgTypeSetPhoneName THEN SetPhoneNameStep(rd, ds, fs, f)
    ELSE UploadStep(rd, ds, fs, f)

(***************************************************************************)
(* generateThumbnails (main.go:567-720), one goroutine per go statement.   *)
(* A pass is spawned, then lists the directory (loop), then for one entry  *)
(* after the other: decides, creates the thumbnail file (create), encodes  *)
(* into it (encode) or runs ffmpeg (ffmpeg); done after the last entry.    *)
(***************************************************************************)
NewPass(dir, c) ==
    [dir |-> dir, st |-> "spawned", entries |-> <<>>, i |-> 0,
     thumb |-> "", src |-> "", ext |-> "", img |-> <<>>, by |-> c]

ImageExts == {".jpg", ".jpeg", ".png", ".heic"}

JpegMagic == <<255, 216>>
PngMagic == <<137, 80, 78, 71>>
GifMagic == <<71, 73, 70, 56>>

IsPrefixOf(m, b) == Len(b) >= Len(m) /\ SubSeq(b, 1, Len(m)) = m

\* image.Decode with the registered formats (main.go:10-12) finds one
ImageDecodes(b) == \E m \in {JpegMagic, PngMagic, GifMagic} : IsPrefixOf(m, b)

\* main.go:598-613: "ftyp" at offset 4 and a HEIC brand at offset 8
SniffHEIC(b) ==
    /\ Len(b) >= 12
    /\ SubSeq(b, 5, 8) = <<102, 116, 121, 112>>
    /\ SubSeq(b, 9, 12) \in { <<104, 101, 105, 99>>, <<104, 101, 105, 120>>,
                              <<109, 105, 102, 49>> }

\* main.go:679-688: the scaled image img encoded as PNG or JPEG
EncodeThumb(ext, img) ==
    (IF ext = ".png" THEN PngMagic ELSE JpegMagic) \o <<0>> \o img

\* main.go:723-751: the frame ffmpeg extracts from a video, as JPEG
VideoFrame(video) == JpegMagic \o <<1>> \o video

Running(p) == passes[p].st \in {"loop", "create", "encode", "ffmpeg"}

\* the pass goes on to the next entry; the locals of the iteration are gone
NextEntry(ps) ==
    [ps EXCEPT !.st = "loop", !.i = @ + 1, !.thumb = "", !.src = "", !.ext = "",
               !.img = <<>>]

\* main.go:567-576
GenStart(p) ==
    /\ alive
    /\ passes[p].st = "spawned"
    /\ \E thumbDir \in {Join(passes[p].dir, thumbSubdir)} :
         IF MkdirAllOK(files, thumbDir)
         THEN /\ dirs' = MkdirAll(dirs, thumbDir)
              /\ passes' = [passes EXCEPT ![p] =
                    [@ EXCEPT !.st = "loop", !.i = 1,
                              !.entries = ReadDir(files, dirs', passes[p].dir)]]
         ELSE /\ dirs' = dirs
              /\ passes' = [passes EXCEPT ![p].st = "done"]
    /\ UNCHANGED <<files, conns, last, stale, alive>>

\* the pass goes on to write thumb from src
ToWrite(ps, st, thumb, src, ext, img) ==
    [ps EXCEPT !.st = st, !.thumb = thumb, !.src = src, !.ext = ext, !.img = img]

\* an image whose failure to open, convert or decode makes the pass return
ExamineImageAbort(ps, fs, ds, converts, ext, srcPath, thumbPath) ==
    IF Exists(fs, ds, thumbPath) THEN NextEntry(ps)
    ELSE IF srcPath \notin DOMAIN fs THEN [ps EXCEPT !.st = "done"]
    ELSE IF SniffHEIC(fs[srcPath])
         THEN IF converts THEN ToWrite(ps, "create", thumbPath, srcPath, ext, fs[srcPath])
              ELSE [ps EXCEPT !.st = "done"]
    ELSE IF ImageDecodes(fs[srcPath])
         THEN ToWrite(ps, "create", thumbPath, srcPath, ext, fs[srcPath])
    ELSE [ps EXCEPT !.st = "done"]

\* an image handled without the os.Stat test of main.go:592-595
ExamineImageAgain(ps, fs, ds, converts, ext, srcPath, thumbPath) ==
    IF srcPath \notin DOMAIN fs THEN NextEntry(ps)
    ELSE IF SniffHEIC(fs[srcPath])
         THEN IF converts THEN ToWrite(ps, "create", thumbPath, srcPath, ext, fs[srcPath])
              ELSE NextEntry(ps)
    ELSE IF ImageDecodes(fs[srcPath])
         THEN ToWrite(ps, "create", thumbPath, srcPath, ext, fs[srcPath])
    ELSE NextEntry(ps)

\* main.go:590-672: an image, up to the decoded and scaled picture
ExamineImage(ps, fs, ds, converts, ext, srcPath, thumbPath) ==
    IF Exists(fs, ds, thumbPath) THEN NextEntry(ps)
    ELSE IF srcPath \notin DOMAIN fs THEN NextEntry(ps)
    ELSE IF SniffHEIC(fs[srcPath])
         THEN IF converts THEN ToWrite(ps, "create", thumbPath, srcPath, ext, fs[srcPath])
              ELSE NextEntry(ps)
    ELSE IF ImageDecodes(fs[srcPath])
         THEN ToWrite(ps, "create", thumbPath, srcPath, ext, fs[srcPath])
    ELSE NextEntry(ps)

\* main.go:695-709: a video, up to the call of generateVideoThumbnail
ExamineVideo(ps, fs, ds, ext, srcPath, markerPath, thumbPath) ==
    IF Exists(fs, ds, markerPath) THEN NextEntry(ps)
    ELSE IF Exists(fs, ds, thumbPath) THEN NextEntry(ps)
    ELSE ToWrite(ps, "ffmpeg", thumbPath, srcPath, ext, <<>>)

\* an entry examined with the prefix test of main.go:583 done on the name as
\* it is, not lower-cased
ExamineEntryAsNamed(ps, fs, ds, converts, isDir, name, ext, thumbDir) ==
    IF isDir \/ HasPrefix(name, "tbn-") THEN NextEntry(ps)
    ELSE IF ext \in ImageExts
         THEN ExamineImage(ps, fs, ds, converts, ext, Join(ps.dir, name),
                           Join(thumbDir, "tbn-" \o name))
    ELSE IF ext \in VideoExts
         THEN ExamineVideo(ps, fs, ds, ext, Join(ps.dir, name),
                           Join(ps.dir, "." \o TrimSuffix(name, ext) \o ".created"),
                           Join(thumbDir, "tbn-" \o TrimSuffix(name, ext) \o ".jpg"))
    ELSE NextEntry(ps)

\* main.go:578-717: the entry called name, ext its lower-cased extension
ExamineEntry(ps, fs, ds, converts, isDir, name, ext, thumbDir) ==
    IF isDir \/ HasPrefix(ToLower(name), "tbn-") THEN NextEntry(ps)
    ELSE IF ext \in ImageExts
         THEN ExamineImage(ps, fs, ds, converts, ext, Join(ps.dir, name),
                           Join(thumbDir, "tbn-" \o name))
    ELSE IF ext \in VideoExts
         THEN ExamineVideo(ps, fs, ds, ext, Join(ps.dir, name),
                           Join(ps.dir, "." \o TrimSuffix(name, ext) \o ".created"),
                           Join(thumbDir, "tbn-" \o TrimSuffix(name, ext) \o ".jpg"))
    ELSE NextEntry(ps)

\* main.go:578-672 and 695-709: one entry up to the decision to write;
\* converts: ImageMagick converts a HEIC source (main.go:519-564)
GenEntry(p) ==
    /\ alive
    /\ passes[p].st = "loop"
    /\ passes[p].i <= Len(passes[p].entries)
    /\ \E converts \in BOOLEAN :
         \E e \in {passes[p].entries[passes[p].i]} :
           \E ext \in {ToLower(Ext(e.name))}, thumbDir \in {Join(passes[p].dir, thumbSubdir)} :
             passes' = [passes EXCEPT ![p] =
                ExamineEntry(@, files, dirs, converts, e.isDir, e.name, ext, thumbDir)]
    /\ UNCHANGED <<dirs, files, conns, last, stale, alive>>

\* main.go:674-678: os.Create(thumbPath) creates or truncates the file
GenCreate(p) ==
    /\ alive
    /\ passes[p].st = "create"
    /\ IF CanCreate(files, dirs, passes[p].thumb)
       THEN /\ files' = WriteFile(files, passes[p].thumb, <<>>)
            /\ passes' = [passes EXCEPT ![p].st = "encode"]
       ELSE /\ files' = files
            /\ passes' = [passes EXCEPT ![p] = NextEntry(@)]
    /\ UNCHANGED <<dirs, conns, last, stale, alive>>

\* main.go:679-691: encode into the open file and close it; an encoding
\* error is logged and leaves what was written so far
GenEncode(p) ==
    /\ alive
    /\ passes[p].st = "encode"
    /\ \E encodes \in BOOLEAN :
         files' = IF encodes /\ passes[p].thumb \in DOMAIN files
                  THEN WriteFile(files, passes[p].thumb,
                                 EncodeThumb(passes[p].ext, passes[p].img))
                  ELSE files
    /\ passes' = [passes EXCEPT ![p] = NextEntry(@)]
    /\ UNCHANGED <<dirs, conns, last, stale, alive>>

\* main.go:710-715 and 723-751: ffmpeg -y writes the frame, or fails
GenVideoThumb(p) ==
    /\ alive
    /\ passes[p].st = "ffmpeg"
    /\ \E runs \in BOOLEAN :
         files' = IF /\ runs
                     /\ passes[p].src \in DOMAIN files
                     /\ CanCreate(files, dirs, passes[p].thumb)
                  THEN WriteFile(files, passes[p].thumb, VideoFrame(files[passes[p].src]))
                  ELSE files
    /\ passes' = [passes EXCEPT ![p] = NextEntry(@)]
    /\ UNCHANGED <<dirs, conns, last, stale, alive>>

\* main.go:578 and 719: the loop ends, the pass returns
GenDone(p) ==
    /\ alive
    /\ passes[p].st = "loop"
    /\ passes[p].i > Len(passes[p].entries)
    /\ passes' = [passes EXCEPT ![p].st = "done"]
    /\ UNCHANGED <<dirs, files, conns, last, stale, alive>>

GenStep ==
    \E p \in DOMAIN passes :
        GenStart(p) \/ GenEntry(p) \/ GenCreate(p) \/ GenEncode(p)
        \/ GenVideoThumb(p) \/ GenDone(p)

(***************************************************************************)
(* Connections.                                                            *)
(***************************************************************************)
\* main.go:444-453 and 167-174: accept, recvDir starts as baseRecvDir
Accept(maxConns) ==
    /\ alive
    /\ Len(conns) < maxConns
    /\ conns' = Append(conns, [st |-> "open", recvDir |-> baseRecvDir, n |-> 0,
                               named |-> FALSE, sync |-> FALSE])
    /\ UNCHANGED <<dirs, files, passes, last, stale, alive>>

\* an unrecovered panic of any goroutine ends the process, and with it every
\* connection; the goroutines of the passes stop where they are
Exited(cs) == [k \in DOMAIN cs |-> [cs[k] EXCEPT !.st = "closed"]]

\* the frames the first k connections have handled
FramesHandled[k \in Nat] == IF k = 0 THEN 0 ELSE conns[k].n + FramesHandled[k - 1]

\* a frame loop that reads on before it has written the reply to the frame
\* it handled (the effects are applied, the reply is held back)
HandleFrameUnanswered(c, f, maxFrames) ==
    /\ alive
    /\ conns[c].st = "open"
    /\ FramesHandled[Len(conns)] < maxFrames
    /\ \E o \in {FrameStep(conns[c].recvDir, dirs, files, f)} :
           /\ \E cs \in {[conns EXCEPT ![c] =
                  [st |-> IF o.closed THEN "closed" ELSE "open",
                   recvDir |-> o.recvDir,
                   n |-> @.n + 1,
                   named |-> @.named \/ o.named,
                   sync |-> o.spawn]]} :
                 conns' = IF o.panic THEN Exited(cs) ELSE cs
           /\ alive' = ~o.panic
           /\ dirs' = o.dirs
           /\ files' = o.files
           /\ passes' = IF o.spawn THEN Append(passes, NewPass(o.recvDir, c)) ELSE passes
           /\ last' = [conn |-> c, frame |-> f, nread |-> o.nread, reply |-> NoReply,
                       closed |-> o.closed, fname |-> o.fname, wrote |-> o.wrote]
           /\ stale' = IF o.named
                       THEN stale \cup { p \in DOMAIN passes : Running(p) }
                       ELSE stale

\* main.go:178-432: connection c reads frame f and handles it
HandleFrame(c, f, maxFrames) ==
    /\ alive
    /\ conns[c].st = "open"
    /\ FramesHandled[Len(conns)] < maxFrames
    /\ \E o \in {FrameStep(conns[c].recvDir, dirs, files, f)} :
           /\ \E cs \in {[conns EXCEPT ![c] =
                  [st |-> IF o.closed THEN "closed" ELSE "open",
                   recvDir |-> o.recvDir,
                   n |-> @.n + 1,
                   named |-> @.named \/ o.named,
                   sync |-> o.spawn]]} :
                 conns' = IF o.panic THEN Exited(cs) ELSE cs
           /\ alive' = ~o.panic
           /\ dirs' = o.dirs
           /\ files' = o.files
           /\ passes' = IF o.spawn THEN Append(passes, NewPass(o.recvDir, c)) ELSE passes
           /\ last' = [conn |-> c, frame |-> f, nread |-> o.nread, reply |-> o.reply,
                       closed |-> o.closed, fname |-> o.fname, wrote |-> o.wrote]
           /\ stale' = IF o.named
                       THEN stale \cup { p \in DOMAIN passes : Running(p) }
                       ELSE stale

\* main.go:181-186 and 162-165: the header read fails (EOF or error), the
\* handler returns and the deferred function closes the connection
Disconnect(c) ==
    /\ alive
    /\ conns[c].st = "open"
    /\ conns' = [conns EXCEPT ![c].st = "closed"]
    /\ UNCHANGED <<dirs, files, passes, last, stale, alive>>

(***************************************************************************)
(* The inputs.                                                             *)
(***************************************************************************)
\* base64 of FF D8 FF, the start of a JPEG file
JpegData == "/9j/"
\* base64 of 89 50 4E 47, the PNG signature
PngData == "iVBORw=="
\* base64 of "AABB"
TextData == "QUFCQg=="

\* the length a client declares for a small JSON payload
JsonLen == 64

UploadFrames ==
    { Frame(msgTypeData, JsonLen, JsonLen, UploadBody("img001", JpegData, "jpg", {})),
      Frame(msgTypeData, JsonLen, JsonLen, UploadBody("img001.PNG", PngData, "png", {})),
      Frame(msgTypeDataAlt, JsonLen, JsonLen, UploadBody("sub/pic", TextData, "JPG", {})),
      Frame(msgTypeData, JsonLen, JsonLen, UploadBody("p1/a.jpg/x", JpegData, "jpg", {})),
      Frame(msgTypeData, JsonLen, JsonLen, UploadBody("../up", JpegData, "a/b", {})) }

RejectedFrames ==
    { TextFrame(msgTypeData, "garbage"),
      Frame(msgTypeData, JsonLen, JsonLen, UploadBody("", JpegData, "jpg", {"id"})),
      Frame(msgTypeDataAlt, JsonLen, JsonLen, UploadBody("img001", "", "jpg", {})),
      Frame(msgTypeData, JsonLen, JsonLen, UploadBody("img001", JpegData, "", {"media"})),
      Frame(msgTypeData, JsonLen, JsonLen, UploadBody("img001", "/9j", "jpg", {})),
      Frame(msgTypeData, PayloadLimit + 1, PayloadLimit + 1, TextBody("garbage")),
      TextFrame(msgTypeData, "") }

TruncatedFrames ==
    { Frame(msgTypeData, JsonLen, 10, UploadBody("img001", JpegData, "jpg", {})),
      Frame(msgTypeSetPhoneName, 2, 1, TextBody("p2")),
      Frame(msgTypeGetMediaCount, 2, 1, TextBody("xx")),
      Frame(msgTypeMediaThumbList, JsonLen, 10, PageBody(Int64Of(0), Int64Of(1), {})) }

ControlFrames ==
    { TextFrame(msgTypeSyncComplete, ""),
      TextFrame(msgTypeSyncComplete, "done"),
      TextFrame(msgTypeSetPhoneName, ""),
      TextFrame(msgTypeSetPhoneName, "p1"),
      TextFrame(msgTypeSetPhoneName, "p2"),
      TextFrame(msgTypeSetPhoneName, "p1/a.jpg") }

QueryFrames ==
    { TextFrame(msgTypeGetMediaCount, ""),
      TextFrame(msgTypeGetMediaCount, "xx"),
      Frame(msgTypeGetMediaCount, PayloadLimit + 1, PayloadLimit + 1, TextBody("big")),
      TextFrame(msgTypeMediaThumbList, ""),
      TextFrame(msgTypeMediaThumbList, "junk"),
      Frame(msgTypeMediaThumbList, JsonLen, JsonLen, PageBody(Int64Of(0), Int64Of(1), {})) }

\* 2^62, 2^61 and 2^32 as ints
TwoTo62 == <<0, 0, 0, 0, 0, 0, 0, 64>>
TwoTo61 == <<0, 0, 0, 0, 0, 0, 0, 32>>
TwoTo32 == <<0, 0, 0, 0, 1, 0, 0, 0>>

\* pages of the catalog, beyond it, without or with unusable members, and with
\* a product pageIndex * pageSize of 2^63 (2^62 * 2, and 2^61 * 100 modulo
\* 2^64) and of 2^64
PageFrames ==
    { Frame(msgTypeMediaThumbList, JsonLen, JsonLen, PageBody(Int64Of(1), Int64Of(1), {})),
      Frame(msgTypeMediaThumbList, JsonLen, JsonLen, PageBody(Int64Of(2), Int64Of(1), {})),
      Frame(msgTypeMediaThumbList, JsonLen, JsonLen, PageBody(Int64Of(-5), Int64Of(0), {})),
      Frame(msgTypeMediaThumbList, JsonLen, JsonLen,
            PageBody(Int64Of(1), Int64Of(0), {"pageSize"})),
      Frame(msgTypeMediaThumbList, JsonLen, JsonLen, PageBody(TwoTo62, Int64Of(2), {})),
      Frame(msgTypeMediaThumbList, JsonLen, JsonLen, PageBody(TwoTo61, Int64Of(0), {})),
      Frame(msgTypeMediaThumbList, JsonLen, JsonLen, PageBody(TwoTo32, TwoTo32, {})) }

\* the frames of a chunked upload of "vid1"; the constants of main.go:35-51
\* name no type for them, 13 to 15 are the first codes left unassigned
ChunkStartFrame == TextFrame(13, "{\"id\":\"vid1\",\"chunkSize\":2,\"totalChunks\":2}")
ChunkDataFrame == TextFrame(14, "{\"id\":\"vid1\",\"chunkIndex\":0,\"data\":\"QUE=\"}")
ChunkCompleteFrame == TextFrame(15, "{\"id\":\"vid1\",\"totalChunks\":2}")

UnknownFrames ==
    { TextFrame(0, ""),
      TextFrame(msgTypeMediaCountRsp, "abcd"),
      TextFrame(msgTypeMediaDelList, "list"),
      ChunkStartFrame, ChunkDataFrame, ChunkCompleteFrame }

Frames ==
    UploadFrames \cup RejectedFrames \cup TruncatedFrames \cup ControlFrames
    \cup QueryFrames \cup PageFrames \cup UnknownFrames

GenFrames ==
    { TextFrame(msgTypeSyncComplete, ""),
      TextFrame(msgTypeSetPhoneName, "p1"),
      TextFrame(msgTypeSetPhoneName, "p2") }

NoFrame == TextFrame(0, "")

(***************************************************************************)
(* The specifications.  The server starts with the receive directory of an *)
(* earlier sync of phone p1: one photo and one video, no thumbnails yet;   *)
(* and with two thumbnails of an earlier sync without a phone name, whose  *)
(* originals are gone.                                                     *)
(***************************************************************************)
InitFiles ==
    [q \in {"received/p1/a.jpg", "received/p1/v.mp4",
            "received/subnails/tbn-b.jpg", "received/subnails/tbn-c.png"} |->
        IF q = "received/p1/a.jpg" THEN JpegMagic \o <<255>>
        ELSE IF q = "received/p1/v.mp4" THEN <<0, 0, 0, 24>>
        ELSE IF q = "received/subnails/tbn-b.jpg" THEN JpegMagic
        ELSE PngMagic]

Init ==
    /\ dirs = {"received", "received/p1", "received/subnails"}
    /\ files = InitFiles
    /\ conns = <<>>
    /\ passes = <<>>
    /\ last = [conn |-> 0, frame |-> NoFrame, nread |-> 0, reply |-> NoReply,
               closed |-> FALSE, fname |-> "", wrote |-> FALSE]
    /\ stale = {}
    /\ alive = TRUE

\* every frame type on the connections of the protocol specification
Next ==
    \/ Accept(MaxConns)
    \/ \E c \in DOMAIN conns : \E f \in Frames : HandleFrame(c, f, MaxFrames)
    \/ \E c \in DOMAIN conns : Disconnect(c)
    \/ \E p \in DOMAIN passes : GenStart(p)
    \/ \E p \in DOMAIN passes : GenEntry(p)
    \/ \E p \in DOMAIN passes : GenCreate(p)
    \/ \E p \in DOMAIN passes : GenEncode(p)
    \/ \E p \in DOMAIN passes : GenVideoThumb(p)
    \/ \E p \in DOMAIN passes : GenDone(p)

Spec == Init /\ [][Next]_vars

\* several connections that name a phone and complete or drop the sync
GenNext ==
    \/ Accept(GenConns)
    \/ \E c \in DOMAIN conns : \E f \in GenFrames : HandleFrame(c, f, GenMaxFrames)
    \/ \E c \in DOMAIN conns : Disconnect(c)
    \/ \E p \in DOMAIN passes : GenStart(p)
    \/ \E p \in DOMAIN passes : GenEntry(p)
    \/ \E p \in DOMAIN passes : GenCreate(p)
    \/ \E p \in DOMAIN passes : GenEncode(p)
    \/ \E p \in DOMAIN passes : GenVideoThumb(p)
    \/ \E p \in DOMAIN passes : GenDone(p)

\* the Go scheduler runs every goroutine that can run
GenSpec == Init /\ [][GenNext]_vars /\ WF_vars(GenStep)

\* several connections that name a phone and query the count and the catalog
NamedAndQueryFrames == {TextFrame(msgTypeSetPhoneName, "p1")} \cup QueryFrames \cup PageFrames

QueryNext ==
    \/ Accept(QueryConns)
    \/ \E c \in DOMAIN conns : \E f \in NamedAndQueryFrames : HandleFrame(c, f, QueryMaxFrames)
    \/ \E c \in DOMAIN conns : Disconnect(c)

QuerySpec == Init /\ [][QueryNext]_vars

\* uploads whose media token is in upper case, holds a backslash, is ".."
\* or holds a dot, besides those of UploadFrames
MediaFrames ==
    { Frame(msgTypeData, JsonLen, JsonLen, UploadBody("clip.MOV", TextData, "MOV", {})),
      Frame(msgTypeData, JsonLen, JsonLen, UploadBody("up", JpegData, "A\\B", {})),
      Frame(msgTypeData, JsonLen, JsonLen, UploadBody("up", JpegData, "..", {})),
      Frame(msgTypeData, JsonLen, JsonLen, UploadBody("a.tar.gz", TextData, "tar.gz", {})) }

\* a connection that names a phone or not and uploads
UploadNext ==
    \/ Accept(MaxConns)
    \/ \E c \in DOMAIN conns :
          \E f \in {TextFrame(msgTypeSetPhoneName, "p1")} \cup UploadFrames \cup MediaFrames :
             HandleFrame(c, f, MaxFrames)
    \/ \E c \in DOMAIN conns : Disconnect(c)

UploadSpec == Init /\ [][UploadNext]_vars

(***************************************************************************)
(* generateThumbnails called again and again, each call after the one      *)
(* before it has returned, over a directory of an earlier sync: any of a   *)
(* file named .png that is no image, a HEIC picture, a picture whose name  *)
(* starts like a thumbnail's, a photo, a video and a video whose extension *)
(* is in upper case, listed in this order, and the markers of the video    *)
(* creation feature for the two videos; or a directory of a photo and a    *)
(* video of the same name, a.jpg and a.mp4.                                *)
(* The calls are over that directory and over its thumbnail directory (the *)
(* receive directory after SetPhoneName "p1/subnails").                    *)
(***************************************************************************)
HeicBytes == <<0, 0, 0, 24, 102, 116, 121, 112, 104, 101, 105, 99>>

SourceBytes ==
    [q \in {"received/p1/.v.created", "received/p1/.w.created", "received/p1/0.png",
            "received/p1/1.heic", "received/p1/TBN-z.jpg", "received/p1/a.jpg",
            "received/p1/a.mp4", "received/p1/v.mp4", "received/p1/w.MOV"} |->
        IF q \in {"received/p1/a.jpg", "received/p1/TBN-z.jpg"} THEN JpegMagic \o <<255>>
        ELSE IF q = "received/p1/0.png" THEN <<0, 1>>
        ELSE IF q = "received/p1/1.heic" THEN HeicBytes
        ELSE IF q \in {"received/p1/.v.created", "received/p1/.w.created"} THEN <<>>
        ELSE <<0, 0, 0, 24>>]

RerunInit ==
    /\ dirs = {"received", "received/p1"}
    /\ \E S \in SUBSET DOMAIN SourceBytes :
          \* the marker of a created video comes with the video
          /\ "received/p1/.v.created" \in S => "received/p1/v.mp4" \in S
          /\ "received/p1/.w.created" \in S => "received/p1/w.MOV" \in S
          \* the file that is no image and the picture named like a thumbnail
          \* lie beside the photo
          /\ "received/p1/0.png" \in S => "received/p1/a.jpg" \in S
          /\ "received/p1/TBN-z.jpg" \in S => "received/p1/a.jpg" \in S
          \* the video named like the photo comes alone or with the photo
          /\ "received/p1/a.mp4" \in S => S \subseteq {"received/p1/a.jpg", "received/p1/a.mp4"}
          /\ files = [q \in S |-> SourceBytes[q]]
    /\ conns = <<>>
    /\ passes = <<>>
    /\ last = [conn |-> 0, frame |-> NoFrame, nread |-> 0, reply |-> NoReply,
               closed |-> FALSE, fname |-> "", wrote |-> FALSE]
    /\ stale = {}
    /\ alive = TRUE

\* main.go:204-208: generateThumbnails(dir) is called, on no connection's behalf
CallGenerate(dir) ==
    /\ alive
    /\ Len(passes) < MaxPasses
    /\ \A p \in DOMAIN passes : passes[p].st = "done"
    /\ passes' = Append(passes, NewPass(dir, 0))
    /\ UNCHANGED <<dirs, files, conns, last, stale, alive>>

RerunNext ==
    \/ \E dir \in {"received/p1", "received/p1/subnails"} : CallGenerate(dir)
    \/ \E p \in DOMAIN passes : GenStart(p)
    \/ \E p \in DOMAIN passes : GenEntry(p)
    \/ \E p \in DOMAIN passes : GenCreate(p)
    \/ \E p \in DOMAIN passes : GenEncode(p)
    \/ \E p \in DOMAIN passes : GenVideoThumb(p)
    \/ \E p \in DOMAIN passes : GenDone(p)

RerunSpec == RerunInit /\ [][RerunNext]_vars

(***************************************************************************)
(* createVideoFromPhotos (main.go:957-1153) beside generation passes over  *)
(* the directory of phone p1.  The request handler runs on a goroutine of  *)
(* its own; its position is read off the file system: after ffmpeg has     *)
(* written the output the video is there and the marker is not.            *)
(***************************************************************************)
\* main.go:957-1144: the photos are resolved and ffmpeg -y writes the video
\* (the picture data joined); a failing ffmpeg makes the function return
CreateVideoEncode(phoneDir, thumbNames, videoName) ==
    /\ alive
    /\ \E t \in thumbNames, ext \in ImageExts :
          Exists(files, dirs, Join(phoneDir, ThumbID(TrimSuffix(t, ToLower(Ext(t)))) \o ext))
    /\ Join(phoneDir, videoName \o ".mp4") \notin DOMAIN files
    /\ CanCreate(files, dirs, Join(phoneDir, videoName \o ".mp4"))
    /\ files' = WriteFile(files, Join(phoneDir, videoName \o ".mp4"), <<0, 0, 0, 32>>)
    /\ UNCHANGED <<dirs, conns, passes, last, stale, alive>>

\* main.go:1146-1152: the marker is written once ffmpeg has returned; a
\* failure to write it is logged and changes nothing
CreateVideoMark(phoneDir, videoName) ==
    /\ alive
    /\ Join(phoneDir, videoName \o ".mp4") \in DOMAIN files
    /\ Join(phoneDir, "." \o videoName \o ".created") \notin DOMAIN files
    /\ CanCreate(files, dirs, Join(phoneDir, "." \o videoName \o ".created"))
    /\ files' = WriteFile(files, Join(phoneDir, "." \o videoName \o ".created"),
                          <<99, 114, 101, 97, 116, 101, 100>>)
    /\ UNCHANGED <<dirs, conns, passes, last, stale, alive>>

\* the video "s" is made of the photo of thumbnail tbn-a.jpg while passes run
CreateSpec ==
    Init /\ [][ \/ CreateVideoEncode("received/p1", {"tbn-a.jpg"}, "s")
                \/ CreateVideoMark("received/p1", "s")
                \/ RerunNext ]_vars

(***************************************************************************)
(* POST /download-music (part_000:1501-1600): the handler counts the       *)
(* bgm*.mp3 files of the music directory, names the download bgm<N+1> and  *)
(* runs the download tool.  Files of the music directory are removed from  *)
(* outside the server.  last is the request handled last.                  *)
(***************************************************************************)
musicDir == "/data/music"

\* the most bgm files counted
MaxMusic == 4

\* part_000:1501-1590, a POST with a JSON body that names a URL: url stands
\* for the bytes the tool fetches; the tool writes <musicDir>/<fileName>.mp3
\* or fails
DownloadMusic(url) ==
    /\ alive
    /\ \E n \in {Cardinality({ q \in DOMAIN files :
                     /\ IsDirectory(dirs, musicDir) /\ InDir(q, musicDir)
                     /\ HasPrefix(Base(q), "bgm") /\ HasSuffix(Base(q), ".mp3") })} :
          /\ n < MaxMusic
          /\ \E fname \in {musicDir \o "/bgm" \o ToString(n + 1) \o ".mp3"}, ok \in BOOLEAN :
                /\ files' = IF ok THEN WriteFile(files, fname, <<url>>) ELSE files
                /\ last' = [conn |-> 0, frame |-> NoFrame, nread |-> 0, reply |-> NoReply,
                            closed |-> FALSE, fname |-> fname, wrote |-> ok]
    /\ dirs' = dirs \cup {"/data", musicDir}
    /\ UNCHANGED <<conns, passes, stale, alive>>

\* a file of the music directory is removed
DeleteMusic(q) ==
    /\ alive
    /\ q \in DOMAIN files
    /\ InDir(q, musicDir)
    /\ files' = [r \in DOMAIN files \ {q} |-> files[r]]
    /\ UNCHANGED <<dirs, conns, passes, last, stale, alive>>

MusicSpec ==
    Init /\ [][ \/ \E url \in 1..2 : DownloadMusic(url)
                \/ \E q \in DOMAIN files : DeleteMusic(q) ]_vars

(***************************************************************************)
(* The responses on the wire.  A payload is stood for by its length n, a   *)
(* Go int: an ACK is "OK:" and the id of an upload of at most 50 MB, a     *)
(* count response is 4 bytes, a thumb list is the JSON of a page whose     *)
(* size the client chooses, each record holding a file in base64.          *)
(***************************************************************************)
\* the fifth byte of the largest thumb-list length drawn
MaxLenHigh == 1

\* main.go:244-246, 303-305, 425-428: PutUint32(respHeader[1:5], uint32(n))
FrameHeader(type, n) == <<type, n[4], n[3], n[2], n[1]>>

\* main.go:247, 306, 429: conn.Write(append(respHeader, payload...))
EmitFrame(type, n) ==
    /\ alive
    /\ last' = [last EXCEPT !.reply = [type |-> type, header |-> FrameHeader(type, n),
                                       length |-> n]]
    /\ UNCHANGED <<files, dirs, conns, passes, stale, alive>>

EmitSpec ==
    Init /\ [][ \/ \E a \in {3, 4, 255}, b \in {0, 255}, c \in {0, 255}, d \in 0..2 :
                     EmitFrame(msgTypeAck,
                               [k \in 1..IntBytes |-> IF k <= 4 THEN <<a, b, c, d>>[k] ELSE 0])
                \/ EmitFrame(msgTypeMediaCountRsp, NatBytes(4))
                \/ \E a \in {13, 128, 255}, b \in {0, 128, 255}, c \in {0, 255},
                      d \in {0, 255}, e \in 0..MaxLenHigh :
                     EmitFrame(msgTypeMediaThumbData,
                               [k \in 1..IntBytes |->
                                   IF k <= 5 THEN <<a, b, c, d, e>>[k] ELSE 0]) ]_vars

(***************************************************************************)
(* The claims.                                                             *)
(***************************************************************************)
\* connection c handles a frame in this step; last' describes the iteration
Handles(c) == conns'[c].n # conns[c].n

\* a connection that has ended handles nothing more
EndedStaysEnded(c) == conns[c].st = "closed" => conns'[c] = conns[c]

\* the types the frame loop recognizes
RecognizedTypes ==
    {msgTypeData, msgTypeDataAlt, msgTypeSyncComplete, msgTypeSetPhoneName,
     msgTypeGetMediaCount, msgTypeMediaThumbList}

\* a thumbnail file: tbn-... in a thumbnail directory
IsThumbPath(t) == Base(Dir(t)) = thumbSubdir /\ HasPrefix(Base(t), "tbn-")

\* C1: at every moment at most one generation pass is running.
C1_AtMostOnePass == Cardinality({ p \in DOMAIN passes : Running(p) }) <= 1

\* C2: a pass that was in flight when a SetPhoneName frame was processed is
\* cancelled: at an entry boundary it examines no further entry (it can only
\* end), and no pass starts before it has ended.
C2_CancelledPassStops ==
    [][ /\ \A p \in stale :
             passes[p].st = "loop" =>
                /\ passes'[p].st \in {"loop", "done"}
                /\ passes'[p].i = passes[p].i
        /\ \A q \in DOMAIN passes :
             (passes[q].st = "spawned" /\ passes'[q].st # "spawned") =>
                \A p \in stale : passes[p].st = "done" ]_vars

\* C3: once a thumbnail file is fully written, no step of any pass truncates,
\* rewrites or removes it.
C3_WrittenThumbnailKept ==
    [][ passes' # passes =>
          \A t \in DOMAIN files :
             (IsThumbPath(t) /\ files[t] # <<>>) =>
                t \in DOMAIN files' /\ files'[t] = files[t] ]_vars

\* C4: when a connection on which SetPhoneName was processed ends without a
\* SyncComplete, a pass over its directory is eventually started.
C4_TeardownStartsPass ==
    \A c \in 1..GenConns :
        (c \in DOMAIN conns /\ conns[c].st = "closed" /\ conns[c].named
            /\ ~conns[c].sync)
        ~> (\E p \in DOMAIN passes :
                /\ passes[p].by = c
                /\ passes[p].dir = conns[c].recvDir
                /\ passes[p].st # "spawned")

\* C5: SyncComplete starts a pass over the connection's current directory on
\* its own goroutine, sends no reply, touches no file and ends the session
\* at once; an ended session handles no further frame.
C5_SyncCompleteEndsSession ==
    [][ \A c \in DOMAIN conns :
          /\ (Handles(c) /\ last'.frame.type = msgTypeSyncComplete) =>
                /\ Len(passes') = Len(passes) + 1
                /\ \A p \in DOMAIN passes : passes'[p] = passes[p]
                /\ passes'[Len(passes')].dir = conns[c].recvDir
                /\ passes'[Len(passes')].st = "spawned"
                /\ last'.reply = NoReply
                /\ files' = files /\ dirs' = dirs
                /\ conns'[c].st = "closed"
          /\ EndedStaysEnded(c) ]_vars

C5_Witness ==
    \E c \in DOMAIN conns : \E p \in DOMAIN passes :
        /\ conns[c].st = "closed" /\ conns[c].sync /\ FramesHandled[Len(conns)] < MaxFrames
        /\ conns[c].recvDir = "received"
        /\ passes[p].by = c /\ passes[p].dir = "received"
        /\ passes[p].st = "spawned"

\* C6: when the connection stays open after a frame of a recognized type,
\* exactly length payload bytes of it were read, whatever the payload is.
C6_PayloadConsumed ==
    [][ \A c \in DOMAIN conns :
          (Handles(c) /\ last'.frame.type \in RecognizedTypes
             /\ conns'[c].st = "open") =>
                last'.nread = last'.frame.length ]_vars

C6_Witness ==
    /\ last.frame.type = msgTypeGetMediaCount
    /\ last.frame.length > PayloadLimit
    /\ last.nread = last.frame.length
    /\ conns[last.conn].st = "open"

\* C7: a frame of an unrecognized type ends the connection at once: no
\* payload byte is read, nothing is sent, no file or directory changes, no
\* pass starts, and the ended session handles no further frame.
C7_UnknownTypeCloses ==
    [][ \A c \in DOMAIN conns :
          /\ (Handles(c) /\ last'.frame.type \notin RecognizedTypes) =>
                /\ conns'[c].st = "closed"
                /\ last'.nread = 0
                /\ last'.reply = NoReply
                /\ files' = files /\ dirs' = dirs /\ passes' = passes
          /\ EndedStaysEnded(c) ]_vars

C7_Witness ==
    /\ last.frame.type = msgTypeMediaDelList
    /\ last.frame.length > 0
    /\ last.closed /\ last.nread = 0
    /\ conns[last.conn].st = "closed"
    /\ FramesHandled[Len(conns)] < MaxFrames

\* the paths the file of an upload of id and media to directory rd can have:
\* rd joined with id, or with id and the extension
DerivedNames(rd, id, media) ==
    { Clean(rd \o "/" \o id),
      Clean(rd \o "/" \o id \o "." \o ToLower(media)),
      Clean(rd \o "/" \o id \o ".bin") }

RejectedPayload(b) ==
    \/ b.kind # "json"
    \/ {"id", "data", "media"} \cap b.absent # {}
    \/ b.id = "" \/ b.data = "" \/ b.media = ""
    \/ ~B64Decode(b.data)[1]

\* what rejecting an upload on connection c means: no reply, no change of the
\* file system or of the directory, and the connection stays open
RejectedOn(c) ==
    /\ last'.reply = NoReply
    /\ files' = files /\ dirs' = dirs /\ passes' = passes
    /\ conns'[c].recvDir = conns[c].recvDir
    /\ conns'[c].st = "open"

\* C9 as stated: every direct upload with such a payload is rejected and the
\* connection stays open.
C9_RejectedUploadKeepsOpen ==
    [][ \A c \in DOMAIN conns :
          (Handles(c) /\ last'.frame.type \in {msgTypeData, msgTypeDataAlt}
             /\ PayloadArrives(last'.frame)
             /\ RejectedPayload(last'.frame.body)) => RejectedOn(c) ]_vars

\* C9 amended: so it is for every such frame whose declared length is within
\* the payload limit; a longer frame ends the connection unread.
C9_RejectedUploadWithinLimit ==
    [][ \A c \in DOMAIN conns :
          (Handles(c) /\ last'.frame.type \in {msgTypeData, msgTypeDataAlt}
             /\ PayloadArrives(last'.frame)
             /\ RejectedPayload(last'.frame.body)) =>
                IF last'.frame.length <= PayloadLimit
                THEN RejectedOn(c) /\ last'.nread = last'.frame.length
                ELSE /\ conns'[c].st = "closed"
                     /\ last'.nread = 0 /\ last'.reply = NoReply
                     /\ files' = files /\ dirs' = dirs ]_vars

C9_Witness ==
    /\ last.frame.type = msgTypeData
    /\ last.frame.body.kind = "json"
    /\ last.frame.body.data = "/9j"
    /\ last.reply = NoReply
    /\ conns[last.conn].st = "open"
    /\ FramesHandled[Len(conns)] < MaxFrames

\* baseDir/n as a clean path
PhoneDir(n) == Clean(baseRecvDir \o "/" \o n)

\* a SetPhoneName frame whose payload arrives and is within the limit
NameFrame(f) ==
    /\ f.type = msgTypeSetPhoneName
    /\ PayloadArrives(f)
    /\ f.length <= PayloadLimit

\* every upload, count and list of connection c works on c's directory
UsesDirectory(c) ==
    /\ (last'.frame.type \in {msgTypeData, msgTypeDataAlt} /\ last'.reply # NoReply) =>
          last'.fname \in DerivedNames(conns[c].recvDir, last'.frame.body.id,
                                       last'.frame.body.media)
    /\ (last'.frame.type = msgTypeGetMediaCount /\ last'.reply # NoReply) =>
          last'.reply = CountReply(countPhotosInDir(files, dirs, conns[c].recvDir))
    /\ (last'.frame.type = msgTypeMediaThumbList /\ last'.reply # NoReply) =>
          \E pg \in {RequestedPage(last'.frame)} :
             last'.reply = ThumbReply(buildThumbsJSONPayloadPaged(
                              files, dirs, conns[c].recvDir, pg[1], pg[2]).photos)

\* C10 as stated: after SetPhoneName with payload n, empty or not, the
\* directory is baseDir/n (and exists, where it can be created), nothing is
\* sent, and later frames use it.
C10_NameSetsDirectory ==
    [][ \A c \in DOMAIN conns :
          Handles(c) =>
             /\ NameFrame(last'.frame) =>
                   /\ conns'[c].recvDir = PhoneDir(last'.frame.body.text)
                   /\ last'.reply = NoReply
                   /\ MkdirAllOK(files, PhoneDir(last'.frame.body.text)) =>
                         PhoneDir(last'.frame.body.text) \in dirs'
             /\ ~NameFrame(last'.frame) => conns'[c].recvDir = conns[c].recvDir
             /\ UsesDirectory(c) ]_vars

\* C10 amended: so it is for every non-empty n; the connection ends when the
\* directory cannot be created; a SetPhoneName frame with an empty payload
\* is skipped and leaves the directory as it was.
C10_NonEmptyNameSetsDirectory ==
    [][ \A c \in DOMAIN conns :
          Handles(c) =>
             /\ (NameFrame(last'.frame) /\ last'.frame.length > 0) =>
                   /\ conns'[c].recvDir = PhoneDir(last'.frame.body.text)
                   /\ last'.reply = NoReply
                   /\ IF MkdirAllOK(files, PhoneDir(last'.frame.body.text))
                      THEN /\ PhoneDir(last'.frame.body.text) \in dirs'
                           /\ conns'[c].st = "open"
                      ELSE conns'[c].st = "closed" /\ dirs' = dirs
             /\ (NameFrame(last'.frame) /\ last'.frame.length = 0) =>
                   /\ conns'[c].recvDir = conns[c].recvDir
                   /\ conns'[c].st = "open"
                   /\ last'.reply = NoReply /\ dirs' = dirs
             /\ ~NameFrame(last'.frame) => conns'[c].recvDir = conns[c].recvDir
             /\ UsesDirectory(c) ]_vars

C10_Witness ==
    /\ last.frame.type = msgTypeSetPhoneName
    /\ last.frame.length = 0
    /\ conns[last.conn].st = "open"
    /\ conns[last.conn].recvDir = "received/p1"

\* a GetMediaCount frame whose (possibly empty) payload is consumed
CountFrame(f) ==
    /\ f.type = msgTypeGetMediaCount
    /\ (f.length = 0 \/ (f.length <= PayloadLimit /\ PayloadArrives(f)))

\* C11: within one connection the frames are handled one at a time and in
\* order: the step in which connection c reads its k-th frame is the step
\* that applies that frame's file effect and sends its reply, computed from
\* the state the earlier frames left; no other step sends anything or
\* advances c, and a step of c reads no frame of another connection.
C11_OneFrameAtATime ==
    [][ /\ \A c \in DOMAIN conns :
              Handles(c) =>
                 /\ conns'[c].n = conns[c].n + 1
                 /\ last'.conn = c
                 /\ \A d \in DOMAIN conns : d # c => conns'[d].n = conns[d].n
                 /\ CountFrame(last'.frame) =>
                       last'.reply = CountReply(countPhotosInDir(files, dirs,
                                                                 conns[c].recvDir))
                 /\ last'.wrote =>
                       /\ last'.reply = AckReply("OK:" \o last'.frame.body.id)
                       /\ last'.fname \in DOMAIN files'
                 /\ files' # files => last'.wrote
        /\ last' # last => \E c \in DOMAIN conns : Handles(c) ]_vars

\* a connection uploaded a photo and then asked for the count, and the count
\* it was sent includes that photo
C11_Witness ==
    /\ last.frame.type = msgTypeGetMediaCount
    /\ last.conn \in DOMAIN conns
    /\ conns[last.conn].n = 2
    /\ "received/img001.jpg" \in DOMAIN files
    /\ last.reply = CountReply(1)

\* the recognized-extension files in the thumbnail directory of dir, 0 when
\* that directory is absent
ThumbnailCount(fs, ds, dir) ==
    IF ~IsDirectory(ds, Join(dir, thumbSubdir)) THEN 0
    ELSE Len(ThumbNames(ReadDir(fs, ds, Join(dir, thumbSubdir))))

\* C12: the GetMediaCount reply is a count frame (type 6) whose payload is
\* the 4-byte big-endian number of thumbnail files present in the thumbnail
\* directory of the connection's directory, 0 when it is absent.
C12_CountIsThumbnailCount ==
    [][ \A c \in DOMAIN conns :
          (Handles(c) /\ CountFrame(last'.frame)) =>
             /\ last'.reply.type = msgTypeMediaCountRsp
             /\ last'.reply.count =
                   BigEndian32(ThumbnailCount(files, dirs, conns[c].recvDir)) ]_vars

\* a GetMediaCount or MediaThumbList frame
QueryFrame(f) == f.type \in {msgTypeGetMediaCount, msgTypeMediaThumbList}

\* C13: handling GetMediaCount or MediaThumbList starts no generation pass
\* and leaves the file system, the connection's directory and every other
\* connection as they were.
C13_QueriesChangeNothing ==
    [][ \A c \in DOMAIN conns :
          (Handles(c) /\ QueryFrame(last'.frame)) =>
             /\ passes' = passes
             /\ files' = files /\ dirs' = dirs
             /\ conns'[c].recvDir = conns[c].recvDir
             /\ \A d \in DOMAIN conns : d # c => conns'[d] = conns[d] ]_vars

\* a MediaThumbList frame whose (possibly empty) payload is consumed
ListFrame(f) == f.type = msgTypeMediaThumbList /\ (f.length = 0 \/ PayloadArrives(f))

\* the smallest page index past a catalog of n thumbnails: ceil(n / pageSize)
PagesOf(n, pageSize) ==
    IF n = 0 THEN 0
    ELSE IF ~FitsSmall(pageSize) \/ SmallValue(pageSize) >= n THEN 1
    ELSE (n + SmallValue(pageSize) - 1) \div SmallValue(pageSize)

\* page pg = <<pageIndex, pageSize>> lies past the end of n thumbnails
PastTheEnd(pg, n) == AtLeast(pg[1], PagesOf(n, pg[2]))

\* C14: a MediaThumbList request for a page index of at least
\* ceil(N / pageSize), N the thumbnails of the catalog, is answered with an
\* empty photos list; the connection stays open and the server goes on
\* running, however large pageIndex and pageSize are.
C14_PastTheEndIsEmpty ==
    [][ \A c \in DOMAIN conns :
          (/\ Handles(c)
           /\ ListFrame(last'.frame)
           /\ PastTheEnd(RequestedPage(last'.frame),
                         ThumbnailCount(files, dirs, conns[c].recvDir))) =>
             /\ last'.reply = ThumbReply(<<>>)
             /\ conns'[c].st = "open"
             /\ alive' ]_vars

\* the sorted thumbnail file names of the catalog of dir
CatalogNames(fs, ds, dir) ==
    IF ~IsDirectory(ds, Join(dir, thumbSubdir)) THEN <<>>
    ELSE ThumbNames(ReadDir(fs, ds, Join(dir, thumbSubdir)))

\* positions [p*s, min((p+1)*s, n)) of names for the page pg = <<p, s>>,
\* in the integers (no wrapping)
PositionsOf(names, pg) ==
    IF PastTheEnd(pg, Len(names)) THEN <<>>
    ELSE [k \in 1..((IF \/ ~FitsSmall(pg[2])
                         \/ SmallValue(pg[2]) >=
                               Len(names) - SmallValue(pg[1]) * SmallValue(pg[2])
                      THEN Len(names)
                      ELSE SmallValue(pg[1]) * SmallValue(pg[2]) + SmallValue(pg[2]))
                     - SmallValue(pg[1]) * SmallValue(pg[2])) |->
             names[SmallValue(pg[1]) * SmallValue(pg[2]) + k]]

\* C15: MediaThumbList with page (p, s) returns, in order, one record for
\* each of the thumbnails at positions [p*s, min((p+1)*s, N)) of the sorted
\* list of the N thumbnail file names, and nothing else.
C15_PageIsSliceOfSortedNames ==
    [][ \A c \in DOMAIN conns :
          (Handles(c) /\ ListFrame(last'.frame)) =>
             \E dir \in {conns[c].recvDir} :
               \E page \in {PositionsOf(CatalogNames(files, dirs, dir),
                                        RequestedPage(last'.frame))} :
                  last'.reply = ThumbReply(
                      [k \in DOMAIN page |->
                          photoItem(files, dirs, dir, Join(dir, thumbSubdir), page[k])])
      ]_vars

\* a MediaThumbList request with an empty payload, a payload that is no JSON
\* object, a missing or negative pageIndex, or a missing or non-positive
\* pageSize
NeedsDefault(f) ==
    \/ f.length = 0
    \/ f.body.kind # "json"
    \/ "pageIndex" \in f.body.absent \/ IsNegative(f.body.pageIndex)
    \/ "pageSize" \in f.body.absent \/ IsNegative(f.body.pageSize)
    \/ IsZero(f.body.pageSize)

\* the page of such a request: 0 and 100 for what is missing or invalid
WithDefaults(f) ==
    IF f.length = 0 \/ f.body.kind # "json" THEN <<Int64Of(0), Int64Of(100)>>
    ELSE << IF "pageIndex" \in f.body.absent \/ IsNegative(f.body.pageIndex)
            THEN Int64Of(0) ELSE f.body.pageIndex,
            IF \/ "pageSize" \in f.body.absent \/ IsNegative(f.body.pageSize)
               \/ IsZero(f.body.pageSize)
            THEN Int64Of(100) ELSE f.body.pageSize >>

\* C16: a MediaThumbList request with an empty payload, invalid JSON, a
\* negative pageIndex or a non-positive pageSize is answered with the page
\* that pageIndex 0 and/or pageSize 100 select in place of the missing or
\* invalid value; the connection stays open and the server keeps running.
C16_DefaultsApplied ==
    [][ \A c \in DOMAIN conns :
          (Handles(c) /\ ListFrame(last'.frame) /\ NeedsDefault(last'.frame)) =>
             /\ \E dir \in {conns[c].recvDir} :
                  \E page \in {PositionsOf(CatalogNames(files, dirs, dir),
                                           WithDefaults(last'.frame))} :
                     last'.reply = ThumbReply(
                        [k \in DOMAIN page |->
                            photoItem(files, dirs, dir, Join(dir, thumbSubdir), page[k])])
             /\ conns'[c].st = "open"
             /\ alive' ]_vars

\* pass q takes the step
PassSteps(q) == passes'[q] # passes[q]

\* pass q runs over a directory that an earlier, completed pass ran over
SecondTime(q) ==
    \E p \in DOMAIN passes : p < q /\ passes[p].dir = passes[q].dir /\ passes[p].st = "done"

\* C17 as stated: a pass run a second time over a directory unchanged since
\* the first pass completed writes, truncates and creates nothing.
C17_SecondPassWritesNothing ==
    [][ \A q \in DOMAIN passes :
          (PassSteps(q) /\ SecondTime(q)) => files' = files ]_vars

\* C17 amended: such a pass leaves every thumbnail that exists as it is (a
\* source whose thumbnail path exists is skipped); what it writes is the
\* thumbnail of a source that had none, which it creates and then fills.
C17_SecondPassKeepsThumbnails ==
    [][ \A q \in DOMAIN passes :
          (PassSteps(q) /\ SecondTime(q)) =>
             /\ \A t \in DOMAIN files :
                   t \in DOMAIN files' /\ (t # passes[q].thumb => files'[t] = files[t])
             /\ \A t \in DOMAIN files' \ DOMAIN files : t = passes[q].thumb
             /\ (files' # files /\ passes[q].st # "encode") =>
                   passes[q].thumb \notin DOMAIN files
             /\ passes'[q].st \in {"create", "ffmpeg"} =>
                   passes'[q].thumb \notin DOMAIN files ]_vars

\* the second pass over received/p1 has returned and the thumbnail of a.jpg,
\* which the first pass wrote, is there
C17_Witness ==
    /\ Len(passes) = 2
    /\ passes[1].dir = "received/p1" /\ passes[2].dir = "received/p1"
    /\ passes[2].st = "done"
    /\ "received/p1/subnails/tbn-a.jpg" \in DOMAIN files
    /\ files["received/p1/subnails/tbn-a.jpg"] = EncodeThumb(".jpg", SourceBytes["received/p1/a.jpg"])

\* entry e of a pass over dir is an image source that can be processed: it
\* is there, it is no HEIC picture and image.Decode reads it
Processable(dir, e) ==
    /\ ~e.isDir
    /\ ~HasPrefix(ToLower(e.name), "tbn-")
    /\ ToLower(Ext(e.name)) \in ImageExts
    /\ Join(dir, e.name) \in DOMAIN files
    /\ ~SniffHEIC(files[Join(dir, e.name)])
    /\ ImageDecodes(files[Join(dir, e.name)])

\* C18: a source that cannot be opened, decoded, converted or encoded does
\* not end the pass: a pass that listed its directory returns only after it
\* has examined every entry, and every source that can be processed then has
\* its thumbnail file.
C18_FailureDoesNotEndPass ==
    \A p \in DOMAIN passes :
       (passes[p].st = "done" /\ passes[p].i > 0) =>
          /\ passes[p].i = Len(passes[p].entries) + 1
          /\ \A k \in DOMAIN passes[p].entries :
                Processable(passes[p].dir, passes[p].entries[k]) =>
                   Join(Join(passes[p].dir, thumbSubdir),
                        "tbn-" \o passes[p].entries[k].name) \in DOMAIN files

\* a pass has returned; 0.png, which is no image, and 1.heic, listed before
\* a.jpg, got no thumbnail, and a.jpg has its thumbnail
C18_Witness ==
    /\ Len(passes) = 1
    /\ passes[1].st = "done" /\ passes[1].dir = "received/p1"
    /\ {"received/p1/0.png", "received/p1/1.heic", "received/p1/a.jpg"} \subseteq DOMAIN files
    /\ "received/p1/subnails/tbn-0.png" \notin DOMAIN files
    /\ "received/p1/subnails/tbn-1.heic" \notin DOMAIN files
    /\ "received/p1/subnails/tbn-a.jpg" \in DOMAIN files

\* C19: whatever frames the clients send and whatever fails inside a pass,
\* the server process keeps running, and a connection is closed only by its
\* own frames or its own end of stream.
C19_ProcessSurvives ==
    [][ /\ alive'
        /\ \A c \in DOMAIN conns :
              (conns[c].st = "open" /\ conns'[c].st = "closed") =>
                 (Handles(c) \/ conns' = [conns EXCEPT ![c].st = "closed"]) ]_vars

\* C20: on one connection a chunked upload is acknowledged frame by frame,
\* "OK:START" for Start, "OK:CHUNK:<index>" for each Data frame and
\* "OK:" + id for Complete, the connection stays open throughout, and after
\* Complete the file <id>.mp4 is in the connection's directory.
C20_ChunkedUploadAcknowledged ==
    [][ \A c \in DOMAIN conns :
          Handles(c) =>
             /\ last'.frame = ChunkStartFrame =>
                   last'.reply = AckReply("OK:START") /\ conns'[c].st = "open"
             /\ last'.frame = ChunkDataFrame =>
                   last'.reply = AckReply("OK:CHUNK:0") /\ conns'[c].st = "open"
             /\ last'.frame = ChunkCompleteFrame =>
                   /\ last'.reply = AckReply("OK:vid1")
                   /\ Join(conns[c].recvDir, "vid1.mp4") \in DOMAIN files' ]_vars

\* C21: a chunked Data or Complete frame for a transfer id that has no open
\* transfer on the connection (none was started on it) gets no ACK and
\* writes no file; its payload is consumed and the connection stays open.
C21_UnknownTransferIgnored ==
    [][ \A c \in DOMAIN conns :
          (Handles(c) /\ last'.frame \in {ChunkDataFrame, ChunkCompleteFrame}) =>
             /\ last'.reply = NoReply
             /\ files' = files
             /\ last'.nread = last'.frame.length
             /\ conns'[c].st = "open" ]_vars

\* main.go:1949-1974: GET /thumb/{phoneName}/{fileName}; the status and the
\* bytes served
ServeThumbAt(fs, ds, filePath) ==
    IF ~Exists(fs, ds, filePath) THEN [status |-> 404, body |-> <<>>]
    ELSE IF filePath \in DOMAIN fs THEN [status |-> 200, body |-> fs[filePath]]
    ELSE [status |-> 301, body |-> <<>>]

ServeThumb(fs, ds, phoneName, fileName) ==
    IF \E i \in 1..Len(phoneName) : HasPrefix(SubSeq(phoneName, i, Len(phoneName)), "..")
    THEN [status |-> 400, body |-> <<>>]
    ELSE IF \E i \in 1..Len(fileName) : HasPrefix(SubSeq(fileName, i, Len(fileName)), "..")
    THEN [status |-> 400, body |-> <<>>]
    ELSE ServeThumbAt(fs, ds, Join(Join(Join(baseRecvDir, phoneName), "thumbnails"),
                                   fileName))

\* the phone whose directory dir is
PhoneOf(dir) == TrimPrefix(dir, baseRecvDir \o "/")

\* C23: a thumbnail that a pass over the directory of a phone writes lies in
\* the directory the thumb list reads, so the list names it, and in the
\* directory GET /thumb/{phone}/{file} serves, so the front end returns it.
C23_ThumbnailReachable ==
    [][ \A q \in DOMAIN passes :
          (PassSteps(q) /\ files' # files /\ passes[q].dir # baseRecvDir) =>
             /\ \E names \in {CatalogNames(files', dirs', passes[q].dir)} :
                   \E k \in DOMAIN names : names[k] = Base(passes[q].thumb)
             /\ ServeThumb(files', dirs', PhoneOf(passes[q].dir),
                           Base(passes[q].thumb)).status = 200 ]_vars

\* C24: the source a pass works on is a file directly in the directory of
\* the pass whose name does not start with "tbn-", in any letter case; so no
\* file is ever the thumbnail of a thumbnail.
C24_NoThumbnailOfThumbnail ==
    /\ \A p \in DOMAIN passes :
          passes[p].src # "" =>
             /\ Dir(passes[p].src) = passes[p].dir
             /\ ~HasPrefix(ToLower(Base(passes[p].src)), "tbn-")
    /\ \A t \in DOMAIN files : ~HasPrefix(ToLower(Base(t)), "tbn-tbn-")

\* passes over received/p1 and then over its thumbnail directory have
\* returned: TBN-z.jpg and the thumbnail of a.jpg were listed and skipped
C24_Witness ==
    /\ Len(passes) = 2
    /\ passes[1].dir = "received/p1" /\ passes[1].st = "done"
    /\ passes[2].dir = "received/p1/subnails" /\ passes[2].st = "done"
    /\ \E k \in DOMAIN passes[1].entries : passes[1].entries[k].name = "TBN-z.jpg"
    /\ \E k \in DOMAIN passes[2].entries : passes[2].entries[k].name = "tbn-a.jpg"
    /\ "received/p1/subnails/subnails" \in dirs

\* the name of file v without its extension, and the marker
\* .<basename>.created beside v
BaseName(v) == TrimSuffix(Base(v), Ext(v))
MarkerOf(v) == Join(Dir(v), "." \o BaseName(v) \o ".created")

\* C25: while the marker .<basename>.created lies beside a video
\* <basename>.<ext>, no step of a generation pass working on that video
\* writes a file.
C25_MarkedVideoSkipped ==
    [][ \A q \in DOMAIN passes :
          (PassSteps(q) /\ ToLower(Ext(passes[q].src)) \in VideoExts
             /\ MarkerOf(passes[q].src) \in DOMAIN files) => files' = files ]_vars

\* the thumbnail name the naming rule gives the source file src of content b
ThumbNameOf(src, b) ==
    IF ToLower(Ext(src)) \in VideoExts THEN "tbn-" \o BaseName(src) \o ".jpg"
    ELSE IF ToLower(Ext(src)) = ".heic" \/ SniffHEIC(b)
         THEN "tbn-" \o BaseName(src) \o ".jpg"
    ELSE "tbn-" \o Base(src)

\* C26: the file a pass writes for a source is named by the rule: a HEIC
\* image (by extension or by content) and a video get tbn-<basename>.jpg,
\* every other image tbn-<source file name>.
C26_ThumbnailNamed ==
    [][ \A q \in DOMAIN passes :
          (PassSteps(q) /\ files' # files /\ passes[q].src \in DOMAIN files) =>
             Base(passes[q].thumb) = ThumbNameOf(passes[q].src, files[passes[q].src]) ]_vars

\* the records of the first page of the thumb list of dir
ListedRecords(fs, ds, dir) ==
    buildThumbsJSONPayloadPaged(fs, ds, dir, Int64Of(0), Int64Of(100)).photos

\* dir holds an original of the thumbnail with this id that has a recognized
\* video extension
VideoSibling(fs, dir, id) ==
    \E v \in DOMAIN fs :
        Dir(v) = dir /\ ToLower(Ext(v)) \in VideoExts /\ BaseName(v) = id

\* C27: every record of the thumb list reports media "video" exactly when
\* the directory holds a video original of that thumbnail and "jpg" or "png"
\* otherwise; and the thumbnail a pass writes from a video source is listed
\* with media "video".
C27_VideoReportedAsVideo ==
    [][ \A q \in DOMAIN passes :
          \E recs \in {ListedRecords(files', dirs', passes[q].dir)} :
             /\ \A k \in DOMAIN recs :
                   /\ recs[k].media = "video" <=> VideoSibling(files', passes[q].dir, recs[k].id)
                   /\ recs[k].media \in {"video", "jpg", "png"}
             /\ (PassSteps(q) /\ files' # files /\ passes[q].st = "ffmpeg") =>
                   \E k \in DOMAIN recs :
                      /\ recs[k].data = B64Encode(files'[passes[q].thumb])
                      /\ recs[k].media = "video" ]_vars

\* the upload of frame f got as far as choosing the file name
Uploads(f) ==
    /\ f.type \in {msgTypeData, msgTypeDataAlt}
    /\ last'.frame = f
    /\ last'.fname # ""

\* the extension for the media token m: lower-cased, "bin" when m holds a
\* path separator or is empty
ExtensionFor(m) ==
    IF m = "" \/ \E i \in 1..Len(m) : SubSeq(m, i, i) \in {"/", "\\"} THEN "bin"
    ELSE ToLower(m)

C29_NoDoubleExtension ==
    [][ \A c \in DOMAIN conns : \A f \in UploadFrames \cup MediaFrames :
          (Handles(c) /\ Uploads(f)) =>
             \E ext \in {ExtensionFor(f.body.media)} :
                last'.fname =
                   IF HasSuffix(ToLower(f.body.id), "." \o ext)
                   THEN Join(conns[c].recvDir, f.body.id)
                   ELSE Join(conns[c].recvDir, f.body.id \o "." \o ext) ]_vars

\* the type codes of the messages a client sends, and of the two responses
ClientTypes ==
    {msgTypeData, msgTypeDataAlt, msgTypeSyncComplete, msgTypeSetPhoneName,
     msgTypeGetMediaCount, msgTypeMediaThumbList, msgTypeMediaDelList,
     msgTypeMediaDownloadList}
ResponseTypes == {msgTypeMediaCountRsp, msgTypeMediaThumbData}

\* connection c answers the frame it handles with an ACK
Acks(c) == Handles(c) /\ last'.reply.ack # ""

\* C30: the type code of every ACK frame the server sends differs from
\* every client-to-server type code and from the codes of the count and the
\* thumb-data response.
C30_AckTypeDedicated ==
    [][ \A c \in DOMAIN conns :
          Acks(c) => last'.reply.type \notin ClientTypes \cup ResponseTypes ]_vars

\* C30 as amended: the type code of every ACK frame is the code of
\* SyncComplete, 3, and differs from every other client-to-server type code
\* and from the codes of the count and the thumb-data response.
C30_AckTypeIsSyncComplete ==
    [][ \A c \in DOMAIN conns :
          Acks(c) =>
             /\ last'.reply.type = 3
             /\ last'.reply.type \notin (ClientTypes \ {msgTypeSyncComplete}) \cup ResponseTypes
       ]_vars

\* the upload of img001 was saved and acknowledged
C30_Witness ==
    /\ last.wrote
    /\ last.reply.ack = "OK:img001"
    /\ last.reply.type = msgTypeSyncComplete
    /\ "received/img001.jpg" \in DOMAIN files

\* C38: a frame of a recognized type that declares a payload longer than the
\* payload limit closes the connection, and no byte of its payload is read.
C38_OversizedNeverRead ==
    [][ \A c \in DOMAIN conns :
          (Handles(c) /\ IsKnownType(last'.frame.type)
             /\ last'.frame.type # msgTypeSyncComplete
             /\ last'.frame.length > PayloadLimit) =>
                /\ last'.nread = 0
                /\ last'.closed ]_vars

\* path p is the receive root or lies inside it
InsideRoot(p) == p = baseRecvDir \/ HasPrefix(p, baseRecvDir \o "/")

\* C32: every file and every directory there is lies inside the receive
\* root, whatever phone names and upload ids the sessions were sent.
C32_InsideReceiveRoot ==
    /\ \A q \in DOMAIN files : InsideRoot(q)
    /\ \A d \in dirs : InsideRoot(d)

\* C34: when a pass has created the file of a thumbnail and the encoding
\* into it fails, the step leaves no file at the path of the thumbnail.
C34_FailedEncodeLeavesNoFile ==
    [][ \A q \in DOMAIN passes :
          (PassSteps(q) /\ passes[q].st = "encode" /\ files' = files) =>
             passes[q].thumb \notin DOMAIN files' ]_vars

\* source s of directory dir is eligible: an image or a video without its
\* marker, not named like a thumbnail
Eligible(fs, dir, s) ==
    /\ Dir(s) = dir
    /\ ~HasPrefix(ToLower(Base(s)), "tbn-")
    /\ \/ ToLower(Ext(s)) \in ImageExts
       \/ ToLower(Ext(s)) \in VideoExts /\ MarkerOf(s) \notin DOMAIN fs

\* the thumbnail generated from the source s of content b
GeneratedFrom(s, b) ==
    IF ToLower(Ext(s)) \in VideoExts THEN VideoFrame(b) ELSE EncodeThumb(ToLower(Ext(s)), b)

\* C35: after a pass over a directory has returned, a complete thumbnail at
\* the thumbnail path of an eligible source of the directory is the one
\* generated from that source; no other source has taken the path.
C35_ThumbnailFromItsSource ==
    \A p \in DOMAIN passes : \A s \in DOMAIN files :
        (passes[p].st = "done" /\ Eligible(files, passes[p].dir, s)) =>
           \E t \in {Join(Join(passes[p].dir, thumbSubdir), ThumbNameOf(s, files[s]))} :
              (t \in DOMAIN files /\ files[t] # <<>>) =>
                 files[t] = GeneratedFrom(s, files[s])

\* the places <<page index, position>> at which the pages of size pageSize
\* of the thumb list of dir hold the file name
PlacesOf(fs, ds, dir, name, pageSize) ==
    { pk \in (0..Len(CatalogNames(fs, ds, dir))) \X (1..pageSize) :
        \E page \in {PageOf(CatalogNames(fs, ds, dir), Int64Of(pk[1]),
                            Int64Of(pageSize)).page} :
           pk[2] <= Len(page) /\ page[pk[2]] = name }

\* C36: the thumbnail file a pass has just written is on exactly one page of
\* the thumb list of the directory of the pass, once, for the page sizes 1
\* and 2.
C36_WrittenThumbnailListedOnce ==
    [][ \A q \in DOMAIN passes : \A pageSize \in 1..2 :
          (PassSteps(q) /\ files' # files) =>
             Cardinality(PlacesOf(files', dirs', passes[q].dir, Base(passes[q].thumb),
                                  pageSize)) = 1 ]_vars

\* C33: the thumb list an open connection would be sent now holds no record
\* of a file that a generation pass has created and not yet written and
\* closed, and no record with empty data.
C33_ListedThumbnailsComplete ==
    \A c \in DOMAIN conns :
        conns[c].st = "open" =>
           \E recs \in {ListedRecords(files, dirs, conns[c].recvDir)} :
              \A k \in DOMAIN recs :
                 /\ recs[k].data # ""
                 /\ \A p \in DOMAIN passes :
                       (passes[p].st = "encode"
                          /\ Dir(passes[p].thumb) = Join(conns[c].recvDir, thumbSubdir)) =>
                             recs[k] # photoItem(files, dirs, conns[c].recvDir,
                                                 Dir(passes[p].thumb), Base(passes[p].thumb))

\* C37: no step of a generation pass writes a thumbnail of the video that
\* createVideoFromPhotos has written, whenever the pass runs.
C37_CreatedVideoNeverThumbnailed ==
    [][ \A q \in DOMAIN passes :
          (PassSteps(q) /\ files' # files) => passes[q].src # "received/p1/s.mp4" ]_vars

\* C39: the file name a download request chooses names no file that is in
\* the music directory when the request is handled.
C39_FreshMusicName ==
    [][ (last' # last /\ InDir(last'.fname, musicDir)) =>
           last'.fname \notin DOMAIN files ]_vars


\* C31: every frame the server emits has a 5-byte header whose first byte is
\* the type and whose big-endian length field equals the number of payload
\* bytes that follow, for every payload size
C31_HeaderLengthIsPayloadLength ==
    [][ last' # last =>
           /\ Len(last'.reply.header) = 5
           /\ last'.reply.header[1] = last'.reply.type
           /\ \A k \in 1..IntBytes :
                 last'.reply.length[k] = IF k <= 4 THEN last'.reply.header[6 - k] ELSE 0 ]_vars

====
